---- MODULE Spec2Model ----
(***************************************************************************)
(* Model of the DTN7 (Bundle Protocol 7) core for ns-3: the in-memory      *)
(* bundle store, the routing base class with the epidemic strategy, the    *)
(* fragment-set accumulator and the node's receive/send paths.             *)
(*                                                                         *)
(* Time is Simulator::Now() counted in minutes.  A bundle's creation       *)
(* timestamp is a DtnTime; DtnTime::ToTime turns its seconds count into a  *)
(* simulator Time with the same count, which is what the expiry tests use. *)
(***************************************************************************)
EXTENDS Integers, FiniteSets, Sequences, TLC

\* ------------------------------------------------------------------ bounds
MaxTime == 4
MaxSeq == 1
MaxLifetime == 2
MaxCapacity == 2
MaxCount == 2
MaxNodeCount == 2
MaxNodeTime == 1
NumPeers == 2
TotalLen == 2
MaxCopies == 4
MaxPayloadLen == 3
MaxFragmentSize == 8
MaxFragTime == 2
MaxHopCount == 2
MaxWireTime == 6
NumBundleIds == 1
MaxFragments == 2
MaxEndpoints == 2

\* ------------------------------------------------------- program constants
\* PeerInfo::IsActive: a peer is active when seen less than 5 minutes ago.
ActiveWindow == 5
\* CRCType
NO_CRC == 0
CRC_16 == 1
\* BundleControlFlags::BUNDLE_IS_A_FRAGMENT
BUNDLE_IS_A_FRAGMENT == 64
\* BlockType::PAYLOAD_BLOCK
PAYLOAD_BLOCK == 1
\* UdpConvergenceLayer: a pending bundle expires 60 seconds after its first
\* fragment and m_cleanupInterval is one minute; the UDP layer's time counts
\* units of 20 seconds.
ReassemblyTimeout == 3
UdpCleanupInterval == 3

LocalNode == 0
Peers == 1..NumPeers
Nodes == {LocalNode} \cup Peers
None == [none |-> TRUE]
\* Creation timestamps (DTN seconds) the bundles of the model carry.
CreationTimes == {0, 1}

\* ------------------------------------------------------------------ bundles
\* A bundle as far as the store, routing and reassembly read it: the primary
\* block's sequence number, creation timestamp, lifetime, destination and
\* fragment fields, and the payload length.
WholeBundles ==
  [seq : 1..MaxSeq, created : CreationTimes, lifetime : 1..MaxLifetime,
   dest : Nodes, isFragment : {FALSE}, fragOffset : {0},
   payloadLen : {TotalLen}, totalLen : {TotalLen}]

FragmentBundles ==
  { f \in [seq : 1..MaxSeq, created : CreationTimes, lifetime : 1..MaxLifetime,
           dest : Nodes, isFragment : {TRUE}, fragOffset : 0..(TotalLen - 1),
           payloadLen : 1..TotalLen, totalLen : {TotalLen}] :
      f.fragOffset + f.payloadLen <= TotalLen }

Bundles == WholeBundles \cup FragmentBundles

\* Bundle::GetId with BundleID::operator==: the fragment offset takes part in
\* the comparison only between fragments, so a whole bundle's offset is
\* normalised away.
GetId(b) ==
  [seq |-> b.seq, created |-> b.created, isFragment |-> b.isFragment,
   fragOffset |-> IF b.isFragment THEN b.fragOffset ELSE 0]

BundleIds == { GetId(b) : b \in Bundles }

\* DtnTime::ToTime: Seconds(m_dtnTimeSeconds), no epoch shift.
ToTime(dtnSeconds) == dtnSeconds

VARIABLES
  now,             \* Simulator::Now()
  m_bundles,       \* MemoryBundleStore::m_bundles : BundleID -> bundle
  m_maxBundles,    \* MemoryBundleStore::m_maxBundles
  m_pushCount,
  m_getCount,
  m_removeCount,
  lastOp,          \* history: the store operation that ran last
  lastArg,         \* history: its argument
  lastRet,         \* history: its return value
  samePush,        \* history: the last two operations pushed the same bundle
  dupPush,         \* history: the last operation pushed an ID already stored
  rt_bundles,      \* RoutingAlgorithm::m_bundles : BundleID -> BundleDescriptor
  m_peers,         \* RoutingAlgorithm::m_peers : NodeID -> PeerInfo
  m_sentBundles,
  m_failedBundles,
  m_running,       \* DtnNode::m_running
  m_receivedBundles,
  m_deliveredBundles,
  m_fragmentSets,  \* FragmentationManager::m_fragmentSets
  pc,              \* "idle", "dispatch" (inside DispatchBundles) or "hung"
  passTodo,        \* the (bundle, peer) pairs the running pass has yet to visit
  txLog,           \* history: pairs a sender's Send returned true for
  dupTx,           \* history: pairs transmitted successfully more than once
  notified,        \* history: (bundle, source) pairs NotifyNewBundle stored
  passTried,       \* history: pairs the running (or last) pass attempted
  passFailed,      \* history: pairs whose attempt failed in that pass
  prevFailed,      \* history: pairs whose attempt failed in the pass before
  m_copies,        \* SprayAndWaitRouting::m_copies : BundleID -> copy count
  m_maxCopies,     \* SprayAndWaitRouting::m_maxCopies
  passPhase,       \* per bundle of the running spray pass: "wait" or "spray"
  sprayLast,       \* history: the last SendBundle call of a spray pass
  net,             \* network of spray nodes: node -> its state for one bundle
  netFlight,       \* <<sender, receiver>> transmissions not yet received
  netLog,          \* history: the transmissions received, in order
  m_fragmentedBundles,      \* FragmentationManager statistics
  m_createdFragments,
  m_reassembledBundles,
  m_abandonedFragmentSets,
  fragArg,         \* history: the bundle and size last given to a fragmenting call
  fragOut,         \* the fragments that call returned
  dupRejected,     \* history: a held fragment set has refused a duplicate offset
  m_cleanupEvent,  \* DtnNode::m_cleanupEvent is pending
  m_routingEvent,  \* DtnNode::m_routingEvent is pending
  claRunning,      \* the node's convergence layer: its m_running
  tickPasses,      \* dispatch passes the running RoutingTask has yet to begin
  m_pendingBundles,  \* UdpConvergenceLayer::m_pendingBundles : bundleId -> PendingBundle
  udpCleanupEvent,   \* UdpConvergenceLayer::m_cleanupEvent: the time it is due, -1 when not pending
  callbackLog,     \* history: the calls of the convergence layer's m_bundleCallback
  notifyPc,        \* the thread in NotifyNewBundle: the statement it is at
  notifySource,    \* NotifyNewBundle's argument source
  notifySeen,      \* the sent-to set as AddSentNode's SentTo read it
  dispatchPc,      \* the thread in DispatchBundles: the statement it is at
  dispatchPeers,   \* the active peers its inner loop has yet to visit
  m_bundlesMutex,  \* RoutingAlgorithm::m_bundlesMutex: the thread that holds it, "free"
  previousNode     \* the bundle's previous-node block: the node it names, -1 when absent

storeVars == <<m_bundles, m_maxBundles, m_pushCount, m_getCount, m_removeCount>>
histVars == <<lastOp, lastArg, lastRet, samePush, dupPush>>
routingVars == <<rt_bundles, m_peers, m_sentBundles, m_failedBundles>>
nodeVars == <<m_running, m_receivedBundles, m_deliveredBundles, m_fragmentSets>>
passVars == <<pc, passTodo>>
logVars == <<txLog, dupTx, notified, passTried, passFailed, prevFailed>>
sprayVars == <<m_copies, m_maxCopies, passPhase, sprayLast>>
netVars == <<net, netFlight, netLog>>
fragVars == <<m_fragmentedBundles, m_createdFragments, m_reassembledBundles,
              m_abandonedFragmentSets, fragArg, fragOut, dupRejected>>
lifeVars == <<m_cleanupEvent, m_routingEvent, claRunning, tickPasses>>
wireVars == <<m_pendingBundles, udpCleanupEvent, callbackLog>>
threadVars == <<notifyPc, notifySource, notifySeen, dispatchPc, dispatchPeers,
                m_bundlesMutex, previousNode>>
extVars == <<sprayVars, netVars, fragVars, lifeVars, wireVars, threadVars>>
vars == <<now, storeVars, histVars, routingVars, nodeVars, passVars, logVars, extVars>>

\* --------------------------------------------------------------- the store
Count == Cardinality(DOMAIN m_bundles)

\* MemoryBundleStore::IsExpired
IsExpired(b) == now > ToTime(b.created) + b.lifetime

PushAcceptsNoCap(b) == TRUE

PushAcceptsNew(b) == ~(Count >= m_maxBundles) /\ GetId(b) \notin DOMAIN m_bundles

PushCountAlways(accepted) == m_pushCount + 1

\* MemoryBundleStore::Push, m_pushCount++ on the storing path only
PushCount(accepted) == IF accepted THEN m_pushCount + 1 ELSE m_pushCount

\* MemoryBundleStore::Push, the capacity test
PushAccepts(b) == ~(Count >= m_maxBundles)

\* m_bundles[id] = bundle
StorePut(m, b) ==
  [i \in DOMAIN m \cup {GetId(b)} |-> IF i = GetId(b) THEN b ELSE m[i]]

StoreErase(m, ids) == [i \in DOMAIN m \ ids |-> m[i]]

otherVars == <<routingVars, nodeVars, passVars, logVars, extVars>>

Push(b) ==
  /\ PushAccepts(b) => m_pushCount < MaxCount
  /\ IF PushAccepts(b)
       THEN /\ m_bundles' = StorePut(m_bundles, b)
            /\ lastRet' = TRUE
       ELSE /\ UNCHANGED m_bundles
            /\ lastRet' = FALSE
  /\ m_pushCount' = PushCount(PushAccepts(b))
  /\ lastOp' = "Push"
  /\ lastArg' = b
  /\ samePush' = (lastOp = "Push" /\ lastArg = b)
  /\ dupPush' = (GetId(b) \in DOMAIN m_bundles)
  /\ UNCHANGED <<now, m_maxBundles, m_getCount, m_removeCount, otherVars>>

GetFoundUnexpired(id) == id \in DOMAIN m_bundles /\ ~IsExpired(m_bundles[id])

\* MemoryBundleStore::Get, the lookup: m_bundles.find (id) != m_bundles.end ()
GetFound(id) == id \in DOMAIN m_bundles

Get(id) ==
  /\ GetFound(id) => m_getCount < MaxCount
  /\ IF GetFound(id)
       THEN /\ m_getCount' = m_getCount + 1
            /\ lastRet' = m_bundles[id]
       ELSE /\ UNCHANGED m_getCount
            /\ lastRet' = None
  /\ lastOp' = "Get"
  /\ lastArg' = id
  /\ samePush' = FALSE
  /\ dupPush' = FALSE
  /\ UNCHANGED <<now, m_bundles, m_maxBundles, m_pushCount, m_removeCount, otherVars>>

Has(id) ==
  /\ lastRet' = (id \in DOMAIN m_bundles)
  /\ lastOp' = "Has"
  /\ lastArg' = id
  /\ samePush' = FALSE
  /\ dupPush' = FALSE
  /\ UNCHANGED <<now, storeVars, otherVars>>

Remove(id) ==
  /\ id \in DOMAIN m_bundles => m_removeCount < MaxCount
  /\ IF id \in DOMAIN m_bundles
       THEN /\ m_bundles' = StoreErase(m_bundles, {id})
            /\ m_removeCount' = m_removeCount + 1
            /\ lastRet' = TRUE
       ELSE /\ UNCHANGED <<m_bundles, m_removeCount>>
            /\ lastRet' = FALSE
  /\ lastOp' = "Remove"
  /\ lastArg' = id
  /\ samePush' = FALSE
  /\ dupPush' = FALSE
  /\ UNCHANGED <<now, m_maxBundles, m_pushCount, m_getCount, otherVars>>

CleanupVictimsOffByOne == { i \in DOMAIN m_bundles :
                             now >= ToTime(m_bundles[i].created) + m_bundles[i].lifetime }

CleanupVictimsLate == { i \in DOMAIN m_bundles :
                         now > ToTime(m_bundles[i].created) + m_bundles[i].lifetime + 1 }

\* MemoryBundleStore::Cleanup, the entries its loop erases
CleanupVictims == { i \in DOMAIN m_bundles : IsExpired(m_bundles[i]) }

Cleanup ==
  /\ m_bundles' = StoreErase(m_bundles, CleanupVictims)
  /\ m_removeCount' = m_removeCount + Cardinality(CleanupVictims)
  /\ lastRet' = Cardinality(CleanupVictims)
  /\ lastOp' = "Cleanup"
  /\ lastArg' = None
  /\ samePush' = FALSE
  /\ dupPush' = FALSE
  /\ UNCHANGED <<now, m_maxBundles, m_pushCount, m_getCount, otherVars>>

\* The simulator clock advances between events.
Tick ==
  /\ now < MaxTime
  /\ now' = now + 1
  /\ lastOp' = "Tick"
  /\ lastArg' = None
  /\ lastRet' = None
  /\ samePush' = FALSE
  /\ dupPush' = FALSE
  /\ UNCHANGED <<storeVars, otherVars>>

\* ------------------------------------------------- the store on its own
StoreInputs == { b \in WholeBundles : b.dest = LocalNode }
StoreInputIds == { GetId(b) : b \in StoreInputs }

\* The attempt record before any spray attempt has been made.
NoAttempt ==
  [phase |-> "none", outcome |-> "none", before |-> 0, after |-> 0,
   peerCopies |-> 0, toDestination |-> FALSE]

\* Every variable but the configured attributes, as the constructors leave it.
InitIdle ==
  /\ now = 0
  /\ m_bundles = << >>
  /\ m_pushCount = 0
  /\ m_getCount = 0
  /\ m_removeCount = 0
  /\ lastOp = "none"
  /\ lastArg = None
  /\ lastRet = None
  /\ samePush = FALSE
  /\ dupPush = FALSE
  /\ rt_bundles = << >>
  /\ m_peers = << >>
  /\ m_sentBundles = 0
  /\ m_failedBundles = 0
  /\ m_running = FALSE
  /\ m_receivedBundles = 0
  /\ m_deliveredBundles = 0
  /\ m_fragmentSets = << >>
  /\ pc = "idle"
  /\ passTodo = {}
  /\ txLog = {}
  /\ dupTx = {}
  /\ notified = {}
  /\ passTried = {}
  /\ passFailed = {}
  /\ prevFailed = {}
  /\ m_copies = << >>
  /\ passPhase = << >>
  /\ sprayLast = NoAttempt
  /\ netFlight = {}
  /\ netLog = << >>
  /\ m_fragmentedBundles = 0
  /\ m_createdFragments = 0
  /\ m_reassembledBundles = 0
  /\ m_abandonedFragmentSets = 0
  /\ fragArg = None
  /\ fragOut = << >>
  /\ dupRejected = FALSE
  /\ m_cleanupEvent = FALSE
  /\ m_routingEvent = FALSE
  /\ claRunning = FALSE
  /\ tickPasses = 0
  /\ m_pendingBundles = << >>
  /\ udpCleanupEvent = -1
  /\ callbackLog = {}
  /\ notifyPc = "idle"
  /\ notifySource = LocalNode
  /\ notifySeen = {}
  /\ dispatchPc = "idle"
  /\ dispatchPeers = {}
  /\ m_bundlesMutex = "free"
  /\ previousNode = -1

InitStore ==
  /\ InitIdle
  /\ m_maxBundles \in 1..MaxCapacity
  /\ m_maxCopies = 1
  /\ net = << >>

NextStore ==
  \/ \E b \in StoreInputs : Push(b)
  \/ \E id \in StoreInputIds : Get(id)
  \/ \E id \in StoreInputIds : Has(id)
  \/ \E id \in StoreInputIds : Remove(id)
  \/ Cleanup
  \/ Tick

SpecStore == InitStore /\ [][NextStore]_vars

\* ------------------------------------------------------------ routing base
\* BundleDescriptor::SentTo
SentTo(d, node) == node \in d.sentNodes

\* BundleDescriptor::AddSentNode
AddSentNode(d, node) ==
  IF ~SentTo(d, node) THEN [d EXCEPT !.sentNodes = @ \cup {node}] ELSE d

\* BundleDescriptor::IsExpired
DescriptorIsExpired(d) == now > d.expirationTime

\* PeerInfo::IsActive
IsActive(peer) == peer.reachable /\ (now - peer.lastSeen < ActiveWindow)

\* RoutingAlgorithm::CalculateExpirationTime
CalculateExpirationTime(b) == ToTime(b.created) + b.lifetime

\* RoutingAlgorithm::UpdateBundleDescriptor: the descriptor map with a
\* descriptor for b in it (the existing one when there is one).
UpdateBundleDescriptor(descs, b) ==
  IF GetId(b) \in DOMAIN descs
    THEN descs
    ELSE [i \in DOMAIN descs \cup {GetId(b)} |->
            IF i = GetId(b)
              THEN [id |-> GetId(b), receiver |-> b.dest, sentNodes |-> {},
                    expirationTime |-> CalculateExpirationTime(b)]
              ELSE descs[i]]

NotifyMarksNothing(descs, b, source) == UpdateBundleDescriptor(descs, b)

\* EpidemicRouting::NotifyNewBundle, after the store took the bundle:
\* desc = UpdateBundleDescriptor (bundle); desc.AddSentNode (source)
NotifyMarksSource(descs, b, source) ==
  LET ds == UpdateBundleDescriptor(descs, b)
  IN [ds EXCEPT ![GetId(b)] = AddSentNode(@, source)]

\* EpidemicRouting::NotifyNewBundle
NotifyNewBundle(b, source) ==
  IF PushAccepts(b)
    THEN /\ m_bundles' = StorePut(m_bundles, b)
         /\ m_pushCount' = PushCount(TRUE)
         /\ rt_bundles' = NotifyMarksSource(rt_bundles, b, source)
         /\ notified' = notified \cup {<<GetId(b), source>>}
    ELSE UNCHANGED <<m_bundles, m_pushCount, rt_bundles, notified>>

ActivePeers(peers) == { p \in DOMAIN peers : IsActive(peers[p]) }

EligibleIgnoringSentTo(id, p) ==
  LET b == m_bundles[id]
      known == id \in DOMAIN rt_bundles
  IN /\ ~(known /\ DescriptorIsExpired(rt_bundles[id]))
     /\ ~(b.dest = LocalNode)
     /\ ~(b.dest # p /\ p = LocalNode)

\* EpidemicRouting::DispatchBundles, the tests a (bundle, peer) pair passes
\* before SendBundle is called for it.
Eligible(id, p) ==
  LET b == m_bundles[id]
      known == id \in DOMAIN rt_bundles
  IN /\ ~(known /\ DescriptorIsExpired(rt_bundles[id]))
     /\ ~(b.dest = LocalNode)
     /\ ~(b.dest # p /\ p = LocalNode)
     /\ ~(known /\ SentTo(rt_bundles[id], p))

\* EpidemicRouting::DispatchBundles up to its first SendBundle: the snapshot
\* of the store (GetAll) and of the active peers, and the pairs to send.
BeginPass(peers) ==
  LET todo == { pair \in (DOMAIN m_bundles) \X ActivePeers(peers) :
                  Eligible(pair[1], pair[2]) }
  IN /\ passTodo' = todo
     /\ pc' = IF todo = {} THEN "idle" ELSE "dispatch"
     /\ passTried' = {}
     /\ passFailed' = {}
     /\ prevFailed' = passFailed

TodoAfterRetrying(pair, outcome) ==
  IF outcome \in {"unreachable", "failed"} THEN passTodo ELSE passTodo \ {pair}

\* EpidemicRouting::DispatchBundles, the loops move on to the next pair
\* whatever SendBundle returned.
TodoAfter(pair, outcome) == passTodo \ {pair}

DescriptorsAfterMarkingAlways(pair, outcome) ==
  IF pair[1] \in DOMAIN rt_bundles
    THEN [rt_bundles EXCEPT ![pair[1]] = AddSentNode(@, pair[2])]
    ELSE rt_bundles

\* RoutingAlgorithm::SendBundle, its effect on the descriptor map: the
\* receiver is added to the bundle's descriptor, when there is one, after a
\* successful Send.
DescriptorsAfter(pair, outcome) ==
  IF outcome = "sent" /\ pair[1] \in DOMAIN rt_bundles
    THEN [rt_bundles EXCEPT ![pair[1]] = AddSentNode(@, pair[2])]
    ELSE rt_bundles

FailedAfterNever(outcome) == m_failedBundles

\* RoutingAlgorithm::SendBundle, m_failedBundles++ on both failure paths
FailedAfter(outcome) ==
  IF outcome \in {"unreachable", "failed"} THEN m_failedBundles + 1 ELSE m_failedBundles

\* One call of RoutingAlgorithm::SendBundle from the dispatch loops.
\*   "unreachable": no sender reports the endpoint reachable;
\*   "failed":      the sender's Send returned false;
\*   "sent":        Send returned true and the descriptor update ran;
\*   "hung":        Send returned true and locking m_bundlesMutex, which
\*                  DispatchBundles already holds, never returned.
SendBundle ==
  /\ pc = "dispatch"
  /\ \E pair \in passTodo, outcome \in {"unreachable", "failed", "sent", "hung"} :
       LET rest == TodoAfter(pair, outcome)
       IN /\ outcome \in {"unreachable", "failed"} => m_failedBundles < MaxNodeCount
          /\ outcome = "sent" => m_sentBundles < MaxNodeCount
          /\ m_failedBundles' = FailedAfter(outcome)
          /\ m_sentBundles' = IF outcome = "sent" THEN m_sentBundles + 1 ELSE m_sentBundles
          /\ rt_bundles' = DescriptorsAfter(pair, outcome)
          /\ txLog' = IF outcome \in {"sent", "hung"} THEN txLog \cup {pair} ELSE txLog
          /\ dupTx' = IF outcome \in {"sent", "hung"} /\ pair \in txLog
                        THEN dupTx \cup {pair} ELSE dupTx
          /\ passTried' = passTried \cup {pair}
          /\ passFailed' = IF outcome \in {"unreachable", "failed"}
                             THEN passFailed \cup {pair} ELSE passFailed
          /\ passTodo' = rest
          /\ pc' = IF outcome = "hung" THEN "hung"
                   ELSE IF rest = {} THEN "idle" ELSE "dispatch"
          /\ lastOp' = "SendBundle"
          /\ lastArg' = pair
          /\ lastRet' = IF outcome = "unreachable" THEN "failed" ELSE outcome
  /\ samePush' = FALSE
  /\ dupPush' = FALSE
  /\ UNCHANGED <<extVars, now, storeVars, m_peers, nodeVars, notified, prevFailed>>

\* EpidemicRouting::DispatchBundles, called by the routing timer
DispatchBundles ==
  /\ m_running
  /\ pc = "idle"
  /\ BeginPass(m_peers)
  /\ lastOp' = "DispatchBundles"
  /\ lastArg' = None
  /\ lastRet' = None
  /\ samePush' = FALSE
  /\ dupPush' = FALSE
  /\ UNCHANGED <<extVars, now, storeVars, routingVars, nodeVars, txLog, dupTx, notified>>

\* EpidemicRouting::NotifyPeerAppeared: record the peer, then dispatch.
NotifyPeerAppeared(p) ==
  /\ m_running
  /\ pc = "idle"
  /\ m_peers' = [q \in DOMAIN m_peers \cup {p} |->
                   IF q = p THEN [nodeID |-> p, lastSeen |-> now,
                                  reachable |-> TRUE, endpoint |-> p]
                            ELSE m_peers[q]]
  /\ BeginPass(m_peers')
  /\ lastOp' = "NotifyPeerAppeared"
  /\ lastArg' = None
  /\ lastRet' = None
  /\ samePush' = FALSE
  /\ dupPush' = FALSE
  /\ UNCHANGED <<extVars, now, storeVars, rt_bundles, m_sentBundles, m_failedBundles,
                 nodeVars, txLog, dupTx, notified>>

\* EpidemicRouting::NotifyPeerDisappeared
NotifyPeerDisappeared(p) ==
  /\ m_running
  /\ pc = "idle"
  /\ p \in DOMAIN m_peers
  /\ m_peers' = [q \in DOMAIN m_peers \ {p} |-> m_peers[q]]
  /\ lastOp' = "NotifyPeerDisappeared"
  /\ lastArg' = None
  /\ lastRet' = None
  /\ samePush' = FALSE
  /\ dupPush' = FALSE
  /\ UNCHANGED <<extVars, now, storeVars, rt_bundles, m_sentBundles, m_failedBundles,
                 nodeVars, passVars, logVars>>

\* ------------------------------------------------------- fragment sets
\* FragmentationManager::GetOriginalBundleId
GetOriginalBundleId(f) ==
  [seq |-> f.seq, created |-> f.created, isFragment |-> FALSE, fragOffset |-> 0]

\* A FragmentInfo as m_fragmentSets[originalId] creates it.
NewFragmentInfo ==
  [totalLength |-> 0, fragments |-> << >>, expirationTime |-> 0, complete |-> FALSE]

RECURSIVE InsertByOffset(_, _)
InsertByOffset(f, fs) ==
  IF fs = << >> THEN <<f>>
  ELSE IF f.fragOffset < Head(fs).fragOffset THEN <<f>> \o fs
  ELSE <<Head(fs)>> \o InsertByOffset(f, Tail(fs))

RECURSIVE SortByOffset(_)
\* std::sort of info.fragments by fragment offset
SortByOffset(fs) ==
  IF fs = << >> THEN << >> ELSE InsertByOffset(Head(fs), SortByOffset(Tail(fs)))

RECURSIVE CoveredLength(_, _)
\* FragmentationManager::TryReassemble, the coverage walk over the sorted
\* fragments: -1 when a gap is met, the covered length otherwise.
CoveredLength(fs, covered) ==
  IF fs = << >> THEN covered
  ELSE IF Head(fs).fragOffset > covered THEN -1
  ELSE LET reach == Head(fs).fragOffset + Head(fs).payloadLen
       IN CoveredLength(Tail(fs), IF reach > covered THEN reach ELSE covered)

\* FragmentationManager::TryReassemble, the payload buffer of totalLength
\* zero bytes with every fragment's payload copied to its offset, in sorted
\* order (a later fragment overwrites an earlier one).
ReassembledPayload(totalLength, sorted) ==
  [j \in 1..totalLength |->
     LET covering == { k \in 1..Len(sorted) :
                         /\ sorted[k].fragOffset < j
                         /\ j <= sorted[k].fragOffset + Len(sorted[k].payload) }
         last == CHOOSE k \in covering : \A other \in covering : other <= k
     IN IF covering = {} THEN 0 ELSE sorted[last].payload[j - sorted[last].fragOffset]]

\* FragmentationManager::TryReassemble, the bundle built: the first
\* fragment's primary block with the fragment flag cleared (offset and total
\* length stay in the block), a fresh payload block, and the first fragment's
\* other blocks.
ReassembledBundle(totalLength, sorted) ==
  [field \in DOMAIN sorted[1] |->
     CASE field = "isFragment" -> FALSE
       [] field = "payloadLen" -> totalLength
       [] field = "payload" -> ReassembledPayload(totalLength, sorted)
       [] OTHER -> sorted[1][field]]

\* A reassembly that does not look at info.complete.
TryReassembleAgain(info) ==
  LET sorted == SortByOffset(info.fragments)
      covered == CoveredLength(sorted, 0)
  IN IF covered = -1 \/ covered < info.totalLength
       THEN [info |-> [info EXCEPT !.fragments = sorted], bundle |-> None]
       ELSE [info |-> [info EXCEPT !.fragments = sorted, !.complete = TRUE],
             bundle |-> ReassembledBundle(info.totalLength, sorted)]

\* FragmentationManager::TryReassemble: the fragment set afterwards and the
\* bundle returned (None for nullptr).
TryReassemble(info) ==
  IF info.complete THEN [info |-> info, bundle |-> None]
  ELSE LET sorted == SortByOffset(info.fragments)
           covered == CoveredLength(sorted, 0)
           first == sorted[1]
       IN IF covered = -1 \/ covered < info.totalLength
            THEN [info |-> [info EXCEPT !.fragments = sorted], bundle |-> None]
            ELSE [info |-> [info EXCEPT !.fragments = sorted, !.complete = TRUE],
                  bundle |-> ReassembledBundle(info.totalLength, sorted)]

IsDuplicateNever(info, f) == FALSE

\* FragmentationManager::AddFragment, the duplicate test: a fragment of the
\* set already has this offset.
IsDuplicate(info, f) ==
  \E k \in 1..Len(info.fragments) : info.fragments[k].fragOffset = f.fragOffset

\* FragmentationManager::AddFragment: the fragment sets afterwards and the
\* bundle returned (None for nullptr).
AddFragment(sets, f) ==
  LET oid == GetOriginalBundleId(f)
      found == IF oid \in DOMAIN sets THEN sets[oid] ELSE NewFragmentInfo
      info == IF found.fragments = << >>
                THEN [found EXCEPT !.totalLength = f.totalLen,
                                   !.expirationTime = ToTime(f.created) + f.lifetime,
                                   !.complete = FALSE]
                ELSE found
      put(i) == [k \in DOMAIN sets \cup {oid} |-> IF k = oid THEN i ELSE sets[k]]
  IN IF IsDuplicate(info, f)
       THEN [sets |-> put(info), bundle |-> None]
       ELSE LET r == TryReassemble([info EXCEPT !.fragments = Append(@, f)])
            IN [sets |-> put(r.info), bundle |-> r.bundle]

\* FragmentationManager::CleanupExpiredFragments
CleanupExpiredFragments(sets) ==
  [k \in { j \in DOMAIN sets : ~(now > sets[j].expirationTime) } |-> sets[k]]

\* ---------------------------------------------------------------- the node
\* A node that takes every bundle for its own.
IsDeliverableAlways(b) == TRUE

\* DtnNode::IsDeliverable
IsDeliverable(b) == b.dest = LocalNode

\* DtnNode::StartApplication
StartApplication ==
  /\ ~m_running
  /\ pc = "idle"
  /\ m_running' = TRUE
  /\ lastOp' = "StartApplication"
  /\ lastArg' = None
  /\ lastRet' = None
  /\ samePush' = FALSE
  /\ dupPush' = FALSE
  /\ UNCHANGED <<extVars, now, storeVars, routingVars, m_receivedBundles, m_deliveredBundles,
                 m_fragmentSets, passVars, logVars>>

\* DtnNode::Send (Ptr<Bundle>), a bundle that is not null with a routing
\* algorithm set: false when the node is not running, else the bundle goes
\* to NotifyNewBundle (which returns nothing) and the result is true.
Submitted(b) ==
  IF ~m_running
    THEN /\ lastRet' = FALSE
         /\ UNCHANGED <<m_bundles, m_pushCount, rt_bundles, notified>>
    ELSE /\ NotifyNewBundle(b, LocalNode)
         /\ lastRet' = TRUE

\* DtnNode::Send (Ptr<Bundle>)
Send(b) ==
  /\ pc = "idle"
  /\ (m_running /\ PushAccepts(b)) => m_pushCount < MaxNodeCount
  /\ Submitted(b)
  /\ lastOp' = "Send"
  /\ lastArg' = None
  /\ samePush' = FALSE
  /\ dupPush' = FALSE
  /\ UNCHANGED <<extVars, now, m_maxBundles, m_getCount, m_removeCount, m_peers, m_sentBundles,
                 m_failedBundles, nodeVars, passVars, txLog, dupTx, passTried,
                 passFailed, prevFailed>>

\* DtnNode::HandleReceivedBundle, what it does with a bundle that is not null
Received(b, source) ==
  /\ m_receivedBundles' = m_receivedBundles + 1
  /\ LET added == AddFragment(m_fragmentSets, b)
         whole == IF b.isFragment THEN added.bundle ELSE b
     IN /\ m_fragmentSets' = IF b.isFragment THEN added.sets ELSE m_fragmentSets
        /\ IF whole = None
             THEN \* the fragment did not complete its set: it is stored as it is
                  /\ PushAccepts(b) => m_pushCount < MaxNodeCount
                  /\ m_bundles' = IF PushAccepts(b) THEN StorePut(m_bundles, b)
                                                    ELSE m_bundles
                  /\ m_pushCount' = PushCount(PushAccepts(b))
                  /\ UNCHANGED <<m_deliveredBundles, rt_bundles, notified>>
             ELSE IF IsDeliverable(whole)
             THEN /\ m_deliveredBundles' = m_deliveredBundles + 1
                  /\ UNCHANGED <<m_bundles, m_pushCount, rt_bundles, notified>>
             ELSE /\ PushAccepts(whole) => m_pushCount < MaxNodeCount
                  /\ NotifyNewBundle(whole, source)
                  /\ UNCHANGED m_deliveredBundles

\* DtnNode::HandleReceivedBundle, the callback of a started convergence layer
HandleReceivedBundle(b, source) ==
  /\ m_running
  /\ pc = "idle"
  /\ m_receivedBundles < MaxNodeCount
  /\ Received(b, source)
  /\ lastOp' = "HandleReceivedBundle"
  /\ lastArg' = None
  /\ lastRet' = None
  /\ samePush' = FALSE
  /\ dupPush' = FALSE
  /\ UNCHANGED <<extVars, now, m_maxBundles, m_getCount, m_removeCount, m_peers, m_sentBundles,
                 m_failedBundles, m_running, passVars, txLog, dupTx, passTried,
                 passFailed, prevFailed>>

\* DtnNode::CleanupExpiredBundles, the store and the fragment sets afterwards
CleanedUp ==
  /\ m_bundles' = StoreErase(m_bundles, CleanupVictims)
  /\ m_removeCount' = m_removeCount + Cardinality(CleanupVictims)
  /\ m_fragmentSets' = CleanupExpiredFragments(m_fragmentSets)

\* DtnNode::CleanupExpiredBundles, the cleanup timer
CleanupExpiredBundles ==
  /\ m_running
  /\ pc = "idle"
  /\ CleanedUp
  /\ lastOp' = "CleanupExpiredBundles"
  /\ lastArg' = None
  /\ lastRet' = None
  /\ samePush' = FALSE
  /\ dupPush' = FALSE
  /\ UNCHANGED <<extVars, now, m_maxBundles, m_pushCount, m_getCount, routingVars, m_running,
                 m_receivedBundles, m_deliveredBundles, passVars, logVars>>

\* The simulator clock advances between events, never inside a handler.
Advance(d) ==
  /\ pc = "idle"
  /\ now < MaxNodeTime
  /\ now' = now + d
  /\ lastOp' = "Advance"
  /\ lastArg' = None
  /\ lastRet' = None
  /\ samePush' = FALSE
  /\ dupPush' = FALSE
  /\ UNCHANGED <<storeVars, otherVars>>

\* Bundles the node is offered: one original bundle, whole or as fragments of
\* one payload byte each.
NodeInputs == { b \in Bundles : /\ b.seq = 1
                                /\ b.created = 0
                                /\ b.lifetime = 1
                                /\ b.dest \in {LocalNode, 1}
                                /\ b.isFragment => (b.payloadLen = 1 /\ b.dest = 1) }

\* Bundles the application hands to DtnNode::Send: whole bundles.
SendInputs == { b \in NodeInputs : ~b.isFragment }

InitNode == InitStore /\ m_maxBundles = MaxCapacity

NextNode ==
  \/ StartApplication
  \/ \E b \in SendInputs : Send(b)
  \/ \E b \in NodeInputs, source \in Peers : HandleReceivedBundle(b, source)
  \/ CleanupExpiredBundles
  \/ DispatchBundles
  \/ SendBundle
  \/ \E p \in Peers : NotifyPeerAppeared(p)
  \/ \E p \in Peers : NotifyPeerDisappeared(p)
  \/ \E d \in {1, ActiveWindow} : Advance(d)

SpecNode == InitNode /\ [][NextNode]_vars

\* ------------------------------------------------- spray-and-wait routing
\* A node that is never a peer of the local node.
FarNode == NumPeers + 1

\* Bundles offered to the spray-and-wait strategy.  The source EID is part of
\* the Bundle ID, so bundles of different sources carry different sequence
\* numbers here.
SprayInputs ==
  { [seq |-> IF src = LocalNode THEN 1 ELSE 2, src |-> src, created |-> 0,
     lifetime |-> MaxLifetime, dest |-> dest, isFragment |-> FALSE,
     fragOffset |-> 0, payloadLen |-> TotalLen, totalLen |-> TotalLen] :
    src \in {LocalNode, 1}, dest \in {1, FarNode} }

\* SprayAndWaitRouting::GetCopyCount
GetCopyCount(id) == IF id \in DOMAIN m_copies THEN m_copies[id] ELSE 1

\* SprayAndWaitRouting::SetCopyCount
SetCopyCount(copies, id, count) ==
  [i \in DOMAIN copies \cup {id} |-> IF i = id THEN count ELSE copies[i]]

\* SprayAndWaitRouting::DecreaseCopyCount, the value it returns
DecreaseCopyCount(id) ==
  IF id \in DOMAIN m_copies /\ m_copies[id] > 1 THEN m_copies[id] - 1 ELSE 1

\* SprayAndWaitRouting::NotifyNewBundle, the initial copy count
InitialCopyCount(b) ==
  IF b.src = LocalNode THEN m_maxCopies
  ELSE IF m_maxCopies \div 2 > 1 THEN m_maxCopies \div 2 ELSE 1

\* SprayAndWaitRouting::NotifyNewBundle
SprayNotifyNewBundle(b, source) ==
  /\ pc = "idle"
  /\ PushAccepts(b) => m_pushCount < MaxNodeCount
  /\ IF PushAccepts(b)
       THEN /\ m_bundles' = StorePut(m_bundles, b)
            /\ m_pushCount' = PushCount(TRUE)
            /\ rt_bundles' = NotifyMarksSource(rt_bundles, b, source)
            /\ m_copies' = SetCopyCount(m_copies, GetId(b), InitialCopyCount(b))
       ELSE UNCHANGED <<m_bundles, m_pushCount, rt_bundles, m_copies>>
  /\ UNCHANGED <<netVars, fragVars, lifeVars, wireVars, threadVars, now, m_maxBundles, m_getCount, m_removeCount, histVars, m_peers,
                 m_sentBundles, m_failedBundles, nodeVars, passVars, logVars,
                 m_maxCopies, passPhase, sprayLast>>

\* SprayAndWaitRouting::DispatchBundles, the wait-phase tests of a pair
WaitEligible(id, p) ==
  /\ ~(id \in DOMAIN rt_bundles /\ DescriptorIsExpired(rt_bundles[id]))
  /\ p = m_bundles[id].dest
  /\ id \in DOMAIN rt_bundles /\ ~SentTo(rt_bundles[id], p)

\* SprayAndWaitRouting::DispatchBundles up to its first attempt: the
\* snapshots, the phase of every stored bundle (its copy count is read once,
\* before the loop over the peers) and the pairs the loops will attempt.
SprayBeginPass(peers) ==
  LET phase == [id \in DOMAIN m_bundles |->
                  IF GetCopyCount(id) <= 1 THEN "wait" ELSE "spray"]
      todo == { pair \in (DOMAIN m_bundles) \X ActivePeers(peers) :
                  IF phase[pair[1]] = "wait" THEN WaitEligible(pair[1], pair[2])
                                             ELSE Eligible(pair[1], pair[2]) }
  IN /\ passTodo' = todo
     /\ passPhase' = phase
     /\ pc' = IF todo = {} THEN "idle" ELSE "dispatch"

\* SprayAndWaitRouting::DispatchBundles, called by the routing timer
SprayDispatchBundles ==
  /\ pc = "idle"
  /\ SprayBeginPass(m_peers)
  /\ UNCHANGED <<netVars, fragVars, lifeVars, wireVars, threadVars, now, storeVars, histVars, routingVars, nodeVars, logVars,
                 m_copies, m_maxCopies, sprayLast>>

\* SprayAndWaitRouting::NotifyPeerAppeared
SprayNotifyPeerAppeared(p) ==
  /\ pc = "idle"
  /\ m_peers' = [q \in DOMAIN m_peers \cup {p} |->
                   IF q = p THEN [nodeID |-> p, lastSeen |-> now,
                                  reachable |-> TRUE, endpoint |-> p]
                            ELSE m_peers[q]]
  /\ SprayBeginPass(m_peers')
  /\ UNCHANGED <<netVars, fragVars, lifeVars, wireVars, threadVars, now, storeVars, histVars, rt_bundles, m_sentBundles,
                 m_failedBundles, nodeVars, logVars, m_copies, m_maxCopies, sprayLast>>

\* SprayAndWaitRouting::NotifyPeerDisappeared
SprayNotifyPeerDisappeared(p) ==
  /\ pc = "idle"
  /\ p \in DOMAIN m_peers
  /\ m_peers' = [q \in DOMAIN m_peers \ {p} |-> m_peers[q]]
  /\ UNCHANGED <<netVars, fragVars, lifeVars, wireVars, threadVars, now, storeVars, histVars, rt_bundles, m_sentBundles,
                 m_failedBundles, nodeVars, passVars, logVars, sprayVars>>

\* SprayAndWaitRouting::DispatchBundles: peerCopies = newCount / 2
PeerShare(before, newCount) == newCount \div 2

\* SprayAndWaitRouting::DispatchBundles: SetCopyCount (id, newCount) after a
\* failed send
CountAfterFailure(before, newCount) == newCount

\* One attempt of a spray pass: in the spray phase DecreaseCopyCount, the
\* split, SendBundle and the copy count update; in the wait phase SendBundle
\* alone.  Outcomes as for SendBundle.
SpraySendBundle ==
  /\ pc = "dispatch"
  /\ \E pair \in passTodo, outcome \in {"unreachable", "failed", "sent", "hung"} :
       LET id == pair[1]
           spraying == passPhase[id] = "spray"
           before == GetCopyCount(id)
           newCount == DecreaseCopyCount(id)
           peerCopies == PeerShare(before, newCount)
           localCopies == newCount - peerCopies
           failed == outcome \in {"unreachable", "failed"}
           decreased == IF id \in DOMAIN m_copies /\ m_copies[id] > 1
                          THEN SetCopyCount(m_copies, id, newCount) ELSE m_copies
           copies == IF ~spraying THEN m_copies
                     ELSE IF outcome = "sent" THEN SetCopyCount(m_copies, id, localCopies)
                     ELSE IF failed
                       THEN SetCopyCount(m_copies, id, CountAfterFailure(before, newCount))
                     ELSE decreased
           rest == IF spraying /\ outcome = "sent" /\ localCopies <= 1
                     THEN { q \in passTodo : q[1] # id }
                     ELSE passTodo \ {pair}
       IN /\ failed => m_failedBundles < MaxNodeCount
          /\ outcome = "sent" => m_sentBundles < MaxNodeCount
          /\ m_failedBundles' = FailedAfter(outcome)
          /\ m_sentBundles' = IF outcome = "sent" THEN m_sentBundles + 1 ELSE m_sentBundles
          /\ rt_bundles' = DescriptorsAfter(pair, outcome)
          /\ m_copies' = copies
          /\ passTodo' = rest
          /\ pc' = IF outcome = "hung" THEN "hung"
                   ELSE IF rest = {} THEN "idle" ELSE "dispatch"
          /\ sprayLast' = [phase |-> passPhase[id],
                           outcome |-> IF failed THEN "failed" ELSE outcome,
                           before |-> before,
                           after |-> IF id \in DOMAIN copies THEN copies[id] ELSE 1,
                           peerCopies |-> IF spraying THEN peerCopies ELSE 0,
                           toDestination |-> (pair[2] = m_bundles[id].dest)]
  /\ UNCHANGED <<netVars, fragVars, lifeVars, wireVars, threadVars, now, storeVars, histVars, m_peers, nodeVars, logVars,
                 m_maxCopies, passPhase>>

\* The simulator clock advances between the events of the routing object.
SprayAdvance(d) ==
  /\ pc = "idle"
  /\ now < MaxNodeTime
  /\ now' = now + d
  /\ UNCHANGED <<storeVars, histVars, routingVars, nodeVars, passVars, logVars, extVars>>

InitSpray ==
  /\ InitIdle
  /\ m_maxBundles = MaxCapacity
  /\ m_maxCopies \in 1..MaxCopies
  /\ net = << >>

NextSpray ==
  \/ \E b \in SprayInputs, source \in Nodes : SprayNotifyNewBundle(b, source)
  \/ \E p \in Peers : SprayNotifyPeerAppeared(p)
  \/ \E p \in Peers : SprayNotifyPeerDisappeared(p)
  \/ SprayDispatchBundles
  \/ SpraySendBundle
  \/ \E d \in {1, ActiveWindow} : SprayAdvance(d)

SpecSpray == InitSpray /\ [][NextSpray]_vars

\* The core locks the dispatching thread holds where DispatchBundles calls
\* SendBundle and the copy count functions: the lock_guard on m_bundlesMutex
\* of the bundle loop's body.
DispatchHolds == IF pc = "dispatch" THEN {"m_bundlesMutex"} ELSE {}

\* The core locks one attempt of a spray pass acquires: m_copiesMutex in
\* DecreaseCopyCount and SetCopyCount (spray phase), m_bundlesMutex in
\* SendBundle once the sender's Send returned true.
AttemptAcquires(attempt) ==
  (IF attempt.phase = "spray" THEN {"m_copiesMutex"} ELSE {})
    \cup (IF attempt.outcome \in {"sent", "hung"} THEN {"m_bundlesMutex"} ELSE {})

\* ------------------------------------------ a network of spray-and-wait nodes
\* One bundle, created at node LocalNode for FarNode, travels between the
\* nodes 0..NumPeers, each running DtnNode with the spray-and-wait strategy
\* and the same MaxCopies attribute (m_maxCopies).  A node's entry holds what
\* the bundle's routing reads and writes there: whether the store holds the
\* bundle, its m_copies entry (0: none), its descriptor's sent-to set
\* (known: a descriptor exists) and the counters.
NetNodes == 0..NumPeers

NetFresh ==
  [stored |-> FALSE, copies |-> 0, known |-> FALSE, sentNodes |-> {},
   m_pushCount |-> 0, m_receivedBundles |-> 0, m_sentBundles |-> 0,
   m_failedBundles |-> 0]

\* SprayAndWaitRouting::NotifyNewBundle at node n with the given source
NetNotifyNewBundle(st, n, source) ==
  [st EXCEPT !.stored = TRUE,
             !.m_pushCount = @ + 1,
             !.known = TRUE,
             !.sentNodes = @ \cup {source},
             !.copies = IF n = LocalNode THEN m_maxCopies
                        ELSE IF m_maxCopies \div 2 > 1 THEN m_maxCopies \div 2 ELSE 1]

\* DtnNode::Send at the bundle's source node
NetSend ==
  /\ pc = "idle"
  /\ ~net[LocalNode].stored
  /\ net' = [net EXCEPT ![LocalNode] = NetNotifyNewBundle(@, LocalNode, LocalNode)]
  /\ UNCHANGED <<now, storeVars, histVars, routingVars, nodeVars, passVars, logVars,
                 sprayVars, fragVars, lifeVars, wireVars, threadVars, netFlight, netLog>>

\* Node x meets node y: NotifyPeerAppeared (y) at x, whose dispatch pass has y
\* as its one active peer.  The bundle's destination is no node of the
\* network, so the wait phase sends nothing.
NetMeet(x, y, outcome) ==
  LET st == net[x]
      newCount == IF st.copies > 1 THEN st.copies - 1 ELSE 1
      peerCopies == PeerShare(st.copies, newCount)
      localCopies == newCount - peerCopies
  IN /\ pc = "idle"
     /\ x # y
     /\ st.stored
     /\ st.copies > 1
     /\ ~(st.known /\ y \in st.sentNodes)
     /\ net' = [net EXCEPT ![x] =
                  IF outcome = "sent"
                    THEN [st EXCEPT !.copies = localCopies,
                                    !.sentNodes = @ \cup {y},
                                    !.m_sentBundles = @ + 1]
                  ELSE IF outcome = "hung"
                    THEN [st EXCEPT !.copies = newCount]
                  ELSE [st EXCEPT !.copies = CountAfterFailure(st.copies, newCount),
                                  !.m_failedBundles = @ + 1]]
     /\ netFlight' = IF outcome \in {"sent", "hung"} THEN netFlight \cup {<<x, y>>}
                                                     ELSE netFlight
     /\ pc' = IF outcome = "hung" THEN "hung" ELSE "idle"
     /\ UNCHANGED <<now, storeVars, histVars, routingVars, nodeVars, passTodo, logVars,
                    sprayVars, fragVars, lifeVars, wireVars, threadVars, netLog>>

\* The convergence layer of y hands a transmission of x to
\* DtnNode::HandleReceivedBundle, with the bundle's source EID as the source.
NetReceive(x, y) ==
  /\ pc = "idle"
  /\ <<x, y>> \in netFlight
  /\ netFlight' = netFlight \ {<<x, y>>}
  /\ net' = [net EXCEPT ![y] =
               NetNotifyNewBundle([@ EXCEPT !.m_receivedBundles = @ + 1], y, LocalNode)]
  /\ netLog' = Append(netLog, <<x, y>>)
  /\ UNCHANGED <<now, storeVars, histVars, routingVars, nodeVars, passVars, logVars,
                 sprayVars, fragVars, lifeVars, wireVars, threadVars>>

InitNet ==
  /\ InitIdle
  /\ m_maxBundles = MaxCapacity
  /\ m_maxCopies \in 1..MaxCopies
  /\ net = [n \in NetNodes |-> NetFresh]

NextNet ==
  \/ NetSend
  \/ \E x, y \in NetNodes, outcome \in {"unreachable", "failed", "sent", "hung"} :
       NetMeet(x, y, outcome)
  \/ \E x, y \in NetNodes : NetReceive(x, y)

SpecNet == InitNet /\ [][NextNet]_vars

\* ------------------------------------------------------------ fragmentation
\* Encoded sizes, in bytes of a reduced encoding that keeps the structure of
\* the CBOR one: a bundle is an array header, the primary block and the
\* canonical blocks; a primary block grows by two items when it is a
\* fragment; a canonical block is a fixed header and its data.
PrimaryCborSize == 3
BlockCborOverhead == 1
ArrayHeaderSize == 1

\* The payloads: of every length up to the bound, the i-th byte being i, so
\* that no two slices of a payload are equal and none is the zero fill of a
\* reassembly buffer.
Payloads == { [i \in 1..n |-> i] : n \in 0..MaxPayloadLen }

\* The non-payload blocks a bundle may carry, one with the
\* must-be-replicated flag and one without.
ReplicatedBlock == [blockNumber |-> 2, mustBeReplicated |-> TRUE, dataLen |-> 1]
PlainBlock == [blockNumber |-> 3, mustBeReplicated |-> FALSE, dataLen |-> 1]
BlockLists == { << >>, <<ReplicatedBlock>>, <<PlainBlock>>, <<ReplicatedBlock, PlainBlock>> }

\* The whole bundles handed to the fragmenting calls.
FragInputs ==
  { [b EXCEPT !.payloadLen = Len(b.payload)] :
      b \in [seq : {1}, created : {0}, lifetime : {1}, dest : {1},
             isFragment : {FALSE}, fragOffset : {0}, payloadLen : {0}, totalLen : {0},
             payload : Payloads, blocks : BlockLists,
             mustNotFragment : BOOLEAN, isAdmin : BOOLEAN] }

FragmentSizes == 1..MaxFragmentSize

\* PrimaryBlock::ToCbor, the size of the encoding
PrimaryBlockCborSize(b) == PrimaryCborSize + (IF b.isFragment THEN 2 ELSE 0)

\* CanonicalBlock::ToCbor, the size of the encoding
BlockCborSize(dataLen) == BlockCborOverhead + dataLen

RECURSIVE BlocksCborSize(_)
BlocksCborSize(blocks) ==
  IF blocks = << >> THEN 0
  ELSE BlockCborSize(Head(blocks).dataLen) + BlocksCborSize(Tail(blocks))

\* Bundle::ToCbor, the size of the encoding
BundleCborSize(b) ==
  ArrayHeaderSize + PrimaryBlockCborSize(b) + BlockCborSize(Len(b.payload))
    + BlocksCborSize(b.blocks)

\* The non-payload blocks with the must-be-replicated flag, in order.
ReplicatedBlocks(blocks) == SelectSeq(blocks, LAMBDA k : k.mustBeReplicated)

\* FragmentBundle / CalculateFragmentPayloadSize: headerOverhead
HeaderOverhead(b) == PrimaryBlockCborSize(b) + BlocksCborSize(ReplicatedBlocks(b.blocks))

\* FragmentBundle: maxPayloadPerFragment
MaxPayloadPerFragment(b, maxFragmentSize) ==
  IF maxFragmentSize > HeaderOverhead(b) THEN maxFragmentSize - HeaderOverhead(b)
                                         ELSE maxFragmentSize \div 2

FragmentCountFloor(totalLength, perFragment) == totalLength \div perFragment

\* FragmentBundle: numFragments
FragmentCount(totalLength, perFragment) ==
  (totalLength + perFragment - 1) \div perFragment

\* FragmentationManager::CalculateFragmentPayloadSize
CalculateFragmentPayloadSize(b, maxFragmentSize, fragmentIndex, totalFragments) ==
  LET effectiveMaxSize == MaxPayloadPerFragment(b, maxFragmentSize)
  IN IF fragmentIndex = totalFragments - 1
       THEN Len(b.payload) - fragmentIndex * effectiveMaxSize
       ELSE effectiveMaxSize

\* One fragment as both fragmenting calls build it: the primary block copied
\* with the fragment flag, offset and total length set, the payload slice,
\* and the must-be-replicated blocks.
MakeFragment(b, offset, payloadSize) ==
  [b EXCEPT !.isFragment = TRUE,
            !.fragOffset = offset,
            !.totalLen = Len(b.payload),
            !.payload = SubSeq(b.payload, offset + 1, offset + payloadSize),
            !.payloadLen = payloadSize,
            !.blocks = ReplicatedBlocks(b.blocks)]

\* FragmentationManager::FragmentBundle, the early returns
ManagerRefuses(b, maxFragmentSize) ==
  \/ b.mustNotFragment
  \/ b.isAdmin
  \/ BundleCborSize(b) <= maxFragmentSize

\* Bundle::Fragment, the early returns
BundleRefuses(b, maxFragmentSize) ==
  \/ b.mustNotFragment
  \/ BundleCborSize(b) <= maxFragmentSize

\* FragmentationManager::FragmentBundle, the loop that creates the fragments
\* (maxPayloadPerFragment > 0)
ManagerFragments(b, maxFragmentSize) ==
  LET perFragment == MaxPayloadPerFragment(b, maxFragmentSize)
      totalLength == Len(b.payload)
      numFragments == FragmentCount(totalLength, perFragment)
      sizeOf(i) ==
        LET payloadSize == CalculateFragmentPayloadSize(b, maxFragmentSize, i, numFragments)
        IN IF i * perFragment + payloadSize > totalLength
             THEN totalLength - i * perFragment ELSE payloadSize
      kept == SelectSeq([i \in 1..numFragments |-> i - 1],
                        LAMBDA i : ~(i * perFragment >= totalLength))
  IN [k \in 1..Len(kept) |-> MakeFragment(b, kept[k] * perFragment, sizeOf(kept[k]))]

\* Bundle::Fragment, the loop that creates the fragments
\* (payloadPerFragment > 0)
BundleFragments(b, maxFragmentSize) ==
  LET payloadPerFragment == maxFragmentSize \div 2
      totalLength == Len(b.payload)
      count == (totalLength + payloadPerFragment - 1) \div payloadPerFragment
      sizeOf(offset) == IF payloadPerFragment < totalLength - offset
                          THEN payloadPerFragment ELSE totalLength - offset
  IN [k \in 1..count |->
        MakeFragment(b, (k - 1) * payloadPerFragment, sizeOf((k - 1) * payloadPerFragment))]

\* FragmentationManager::FragmentBundle.  With maxPayloadPerFragment = 0 the
\* computation of numFragments divides by zero and the process stops.
FragmentBundle(b, maxFragmentSize) ==
  LET refused == ManagerRefuses(b, maxFragmentSize)
      crashes == ~refused /\ MaxPayloadPerFragment(b, maxFragmentSize) = 0
      fragments == IF refused \/ crashes THEN << >>
                   ELSE ManagerFragments(b, maxFragmentSize)
  IN /\ pc = "idle"
     /\ fragArg = None
     /\ fragArg' = [op |-> "FragmentBundle", bundle |-> b, maxFragmentSize |-> maxFragmentSize,
                    after |-> b]
     /\ fragOut' = fragments
     /\ pc' = IF crashes THEN "crashed" ELSE "idle"
     /\ m_fragmentedBundles' = IF fragments # << >> THEN m_fragmentedBundles + 1
                                                    ELSE m_fragmentedBundles
     /\ m_createdFragments' = m_createdFragments + Len(fragments)
     /\ UNCHANGED <<now, storeVars, histVars, routingVars, nodeVars, passTodo, logVars,
                    sprayVars, netVars, lifeVars, wireVars, threadVars, m_reassembledBundles, m_abandonedFragmentSets,
                    dupRejected>>

\* Bundle::Fragment.  With payloadPerFragment = 0 and a payload that is not
\* empty the loop never advances its offset and does not end.
BundleFragment(b, maxFragmentSize) ==
  LET refused == BundleRefuses(b, maxFragmentSize)
      hangs == ~refused /\ maxFragmentSize \div 2 = 0 /\ Len(b.payload) > 0
      fragments == IF refused \/ hangs \/ Len(b.payload) = 0 THEN << >>
                   ELSE BundleFragments(b, maxFragmentSize)
  IN /\ pc = "idle"
     /\ fragArg = None
     /\ fragArg' = [op |-> "Fragment", bundle |-> b, maxFragmentSize |-> maxFragmentSize,
                    after |-> b]
     /\ fragOut' = fragments
     /\ pc' = IF hangs THEN "hung" ELSE "idle"
     /\ UNCHANGED <<now, storeVars, histVars, routingVars, nodeVars, passTodo, logVars,
                    sprayVars, netVars, lifeVars, wireVars, threadVars, m_fragmentedBundles, m_createdFragments,
                    m_reassembledBundles, m_abandonedFragmentSets, dupRejected>>

\* A fragment the fragmenting call returned arrives (again, or for the first
\* time, in any order): FragmentationManager::AddFragment
ReceiveFragment(i) ==
  LET f == fragOut[i]
      oid == GetOriginalBundleId(f)
      r == AddFragment(m_fragmentSets, f)
      duplicate == oid \in DOMAIN m_fragmentSets /\ IsDuplicate(m_fragmentSets[oid], f)
  IN /\ pc = "idle"
     /\ i \in DOMAIN fragOut
     /\ m_fragmentSets' = r.sets
     /\ m_reassembledBundles' = IF r.bundle # None THEN m_reassembledBundles + 1
                                                   ELSE m_reassembledBundles
     /\ lastOp' = "AddFragment"
     /\ lastArg' = f
     /\ lastRet' = r.bundle
     /\ samePush' = FALSE
     /\ dupPush' = FALSE
     /\ dupRejected' = (dupRejected \/ (duplicate /\ ~m_fragmentSets[oid].complete))
     /\ UNCHANGED <<now, storeVars, routingVars, m_running, m_receivedBundles,
                    m_deliveredBundles, passVars, logVars, sprayVars, netVars, lifeVars, wireVars, threadVars,
                    m_fragmentedBundles, m_createdFragments, m_abandonedFragmentSets,
                    fragArg, fragOut>>

\* The periodic cleanup: FragmentationManager::CleanupExpiredFragments
CleanupFragments ==
  LET kept == CleanupExpiredFragments(m_fragmentSets)
      removedCount == Cardinality(DOMAIN m_fragmentSets) - Cardinality(DOMAIN kept)
  IN /\ pc = "idle"
     /\ m_abandonedFragmentSets + removedCount <= MaxCount
     /\ m_fragmentSets' = kept
     /\ m_abandonedFragmentSets' = m_abandonedFragmentSets + removedCount
     /\ lastOp' = "CleanupExpiredFragments"
     /\ lastArg' = None
     /\ lastRet' = None
     /\ samePush' = FALSE
     /\ dupPush' = FALSE
     /\ dupRejected' = (dupRejected /\ removedCount = 0)
     /\ UNCHANGED <<now, storeVars, routingVars, m_running, m_receivedBundles,
                    m_deliveredBundles, passVars, logVars, sprayVars, netVars, lifeVars, wireVars, threadVars,
                    m_fragmentedBundles, m_createdFragments, m_reassembledBundles,
                    fragArg, fragOut>>

\* Simulated time passes.
FragAdvance ==
  /\ pc = "idle"
  /\ now < MaxFragTime
  /\ now' = now + 1
  /\ lastOp' = "Advance"
  /\ lastArg' = None
  /\ lastRet' = None
  /\ samePush' = FALSE
  /\ dupPush' = FALSE
  /\ UNCHANGED <<storeVars, routingVars, nodeVars, passVars, logVars, extVars>>

InitFrag ==
  /\ InitIdle
  /\ m_maxBundles = MaxCapacity
  /\ m_maxCopies = 1
  /\ net = << >>

NextFrag ==
  \/ /\ fragArg = None
     /\ \E b \in FragInputs, maxFragmentSize \in FragmentSizes :
          FragmentBundle(b, maxFragmentSize)
  \/ /\ fragArg = None
     /\ \E b \in FragInputs, maxFragmentSize \in FragmentSizes :
          BundleFragment(b, maxFragmentSize)
  \/ \E i \in 1..MaxPayloadLen : ReceiveFragment(i)
  \/ CleanupFragments
  \/ FragAdvance

SpecFrag == InitFrag /\ [][NextFrag]_vars

\* ------------------------------------------- fragments from the network
\* The fragments a convergence layer may hand over: of one original bundle,
\* with any offset up to the total length and any payload length, so that a
\* fragment may reach past the total length its primary block states.
SetInputs ==
  [seq : {1}, created : {0}, lifetime : {1}, dest : {1}, isFragment : {TRUE},
   fragOffset : 0..TotalLen, payloadLen : 1..TotalLen, totalLen : {TotalLen}]

\* FragmentationManager::TryReassemble, the copy of a fragment's payload to
\* reassembledPayload.begin() + offset ends past the totalLength bytes of
\* the buffer.
CopyOverruns(info) ==
  \E k \in 1..Len(info.fragments) :
    info.fragments[k].fragOffset + info.fragments[k].payloadLen > info.totalLength

\* FragmentationManager::AddFragment with a fragment from the network.  A
\* reassembly whose copy overruns the buffer has undefined behaviour: the
\* call returns the bundle, or the process stops.
NetworkFragment(f) ==
  LET oid == GetOriginalBundleId(f)
      r == AddFragment(m_fragmentSets, f)
      overrun == r.bundle # None /\ CopyOverruns(r.sets[oid])
  IN /\ pc = "idle"
     /\ r.bundle # None => m_reassembledBundles < MaxCount
     /\ \E outcome \in IF overrun THEN {"returned", "crashed"} ELSE {"returned"} :
          /\ pc' = IF outcome = "crashed" THEN "crashed" ELSE "idle"
          /\ lastRet' = IF outcome = "crashed" THEN None ELSE r.bundle
          /\ m_reassembledBundles' =
               IF r.bundle # None /\ outcome = "returned"
                 THEN m_reassembledBundles + 1 ELSE m_reassembledBundles
     /\ m_fragmentSets' = r.sets
     /\ lastOp' = "AddFragment"
     /\ lastArg' = f
     /\ samePush' = FALSE
     /\ dupPush' = FALSE
     /\ UNCHANGED <<now, storeVars, routingVars, m_running, m_receivedBundles,
                    m_deliveredBundles, passTodo, logVars, sprayVars, netVars, lifeVars,
                    wireVars, threadVars, m_fragmentedBundles, m_createdFragments,
                    m_abandonedFragmentSets, fragArg, fragOut, dupRejected>>

NextSets ==
  \/ \E f \in SetInputs : NetworkFragment(f)
  \/ CleanupFragments
  \/ FragAdvance

SpecSets == InitFrag /\ [][NextSets]_vars

\* ------------------------------------------------------- the node's life
\* The hop limit of the bundles offered.
HopLimit == 1

\* The one peer RoutingTask ever reports: it names every active connection
\* "dtn://peer/".
TaskPeer == 1

\* Whole bundles with a hop-count block, submitted by the application or
\* handed over by the convergence layer.  They share one Bundle ID, and the
\* store of this node holds one bundle.
LifeInputs ==
  [seq : {1}, created : {0}, lifetime : {1}, dest : {LocalNode, TaskPeer},
   isFragment : {FALSE}, fragOffset : {0}, payloadLen : {TotalLen}, totalLen : {TotalLen},
   hopLimit : {HopLimit}, hopCount : 0..MaxHopCount]

\* HopCountBlock::Exceeded
Exceeded(b) == b.hopCount >= b.hopLimit

TimerKept(pending) == pending

\* DtnNode::StopApplication: a pending event is cancelled.
TimerAfterStop(pending) == FALSE

\* DtnNode::StartApplication with a store and a routing algorithm set.  The
\* receiver's Start may fail; the node runs all the same.
LifeStart(claStarts) ==
  /\ ~m_running
  /\ pc = "idle"
  /\ tickPasses = 0
  /\ claRunning' = (claRunning \/ claStarts)
  /\ m_cleanupEvent' = TRUE
  /\ m_routingEvent' = TRUE
  /\ m_running' = TRUE
  /\ lastOp' = "StartApplication"
  /\ lastArg' = None
  /\ lastRet' = None
  /\ samePush' = FALSE
  /\ dupPush' = FALSE
  /\ UNCHANGED <<now, storeVars, routingVars, m_receivedBundles, m_deliveredBundles,
                 m_fragmentSets, passVars, logVars, sprayVars, netVars, fragVars, wireVars, threadVars,
                 tickPasses>>

\* DtnNode::StopApplication
LifeStop ==
  /\ m_running
  /\ pc = "idle"
  /\ tickPasses = 0
  /\ m_cleanupEvent' = TimerAfterStop(m_cleanupEvent)
  /\ m_routingEvent' = TimerAfterStop(m_routingEvent)
  /\ claRunning' = FALSE
  /\ m_running' = FALSE
  /\ lastOp' = "StopApplication"
  /\ lastArg' = None
  /\ lastRet' = None
  /\ samePush' = FALSE
  /\ dupPush' = FALSE
  /\ UNCHANGED <<now, storeVars, routingVars, m_receivedBundles, m_deliveredBundles,
                 m_fragmentSets, passVars, logVars, sprayVars, netVars, fragVars, wireVars, threadVars,
                 tickPasses>>

\* DtnNode::Send (Ptr<Bundle>), called by the application at any time
LifeSend(b) ==
  /\ pc = "idle"
  /\ tickPasses = 0
  /\ (m_running /\ PushAccepts(b)) => m_pushCount < MaxNodeCount
  /\ Submitted(b)
  /\ lastOp' = "Send"
  /\ lastArg' = b
  /\ samePush' = FALSE
  /\ dupPush' = FALSE
  /\ UNCHANGED <<extVars, now, m_maxBundles, m_getCount, m_removeCount, m_peers, m_sentBundles,
                 m_failedBundles, nodeVars, passVars, txLog, dupTx, passTried,
                 passFailed, prevFailed>>

\* The convergence layer, running, hands a received bundle to its callback
\* DtnNode::HandleReceivedBundle.
LifeReceive(b, source) ==
  /\ claRunning
  /\ pc = "idle"
  /\ tickPasses = 0
  /\ m_receivedBundles < MaxNodeCount
  /\ Received(b, source)
  /\ lastOp' = "HandleReceivedBundle"
  /\ lastArg' = [bundle |-> b, source |-> source]
  /\ lastRet' = None
  /\ samePush' = FALSE
  /\ dupPush' = FALSE
  /\ UNCHANGED <<extVars, now, m_maxBundles, m_getCount, m_removeCount, m_peers, m_sentBundles,
                 m_failedBundles, m_running, passVars, txLog, dupTx, passTried,
                 passFailed, prevFailed>>

\* The cleanup event fires: DtnNode::CleanupExpiredBundles, which schedules
\* itself again.
LifeCleanupTask ==
  /\ m_cleanupEvent
  /\ pc = "idle"
  /\ tickPasses = 0
  /\ CleanedUp
  /\ lastOp' = "CleanupExpiredBundles"
  /\ lastArg' = None
  /\ lastRet' = None
  /\ samePush' = FALSE
  /\ dupPush' = FALSE
  /\ UNCHANGED <<extVars, now, m_maxBundles, m_pushCount, m_getCount, routingVars, m_running,
                 m_receivedBundles, m_deliveredBundles, passVars, logVars>>

\* DtnNode::RoutingTask, the peer it reports for an active connection: every
\* connection gets the node ID "dtn://peer/" (TaskPeer) and its own endpoint.
\* UpdatePeer hands it to NotifyPeerAppeared: m_peers[peer.nodeID] = peer.
TaskPeerAppeared(peers, endpoint) ==
  [q \in DOMAIN peers \cup {TaskPeer} |->
     IF q = TaskPeer THEN [nodeID |-> TaskPeer, lastSeen |-> now,
                           reachable |-> TRUE, endpoint |-> endpoint]
                     ELSE peers[q]]

\* The routing event fires: DtnNode::RoutingTask, with `connections` active
\* connections at the endpoints 1..connections.  For each it reports the
\* peer (NotifyPeerAppeared, which dispatches), and then calls DispatchBundles
\* itself; without one it only dispatches.  It schedules itself again.  The
\* step runs up to the first dispatch pass.
LifeRoutingTask(connections) ==
  /\ m_routingEvent
  /\ pc = "idle"
  /\ tickPasses = 0
  /\ m_peers' = IF connections > 0 THEN TaskPeerAppeared(m_peers, 1) ELSE m_peers
  /\ BeginPass(m_peers')
  /\ tickPasses' = connections
  /\ lastOp' = "RoutingTask"
  /\ lastArg' = None
  /\ lastRet' = None
  /\ samePush' = FALSE
  /\ dupPush' = FALSE
  /\ UNCHANGED <<now, storeVars, rt_bundles, m_sentBundles, m_failedBundles, nodeVars,
                 txLog, dupTx, notified, sprayVars, netVars, fragVars, wireVars, threadVars,
                 m_cleanupEvent, m_routingEvent, claRunning>>

\* DtnNode::RoutingTask goes on: the peer of the next connection is reported
\* and dispatched to, or, the connections done, DispatchBundles is called.
LifeSecondPass ==
  /\ pc = "idle"
  /\ tickPasses >= 1
  /\ m_peers' = IF tickPasses >= 2
                  THEN TaskPeerAppeared(m_peers, m_peers[TaskPeer].endpoint + 1)
                  ELSE m_peers
  /\ BeginPass(m_peers')
  /\ tickPasses' = tickPasses - 1
  /\ lastOp' = IF tickPasses >= 2 THEN "NotifyPeerAppeared" ELSE "DispatchBundles"
  /\ lastArg' = None
  /\ lastRet' = None
  /\ samePush' = FALSE
  /\ dupPush' = FALSE
  /\ UNCHANGED <<now, storeVars, rt_bundles, m_sentBundles, m_failedBundles, nodeVars,
                 txLog, dupTx, notified, sprayVars, netVars, fragVars, wireVars, threadVars,
                 m_cleanupEvent, m_routingEvent, claRunning>>

LifeAdvance(d) == tickPasses = 0 /\ Advance(d)

InitLife ==
  /\ InitIdle
  /\ m_maxBundles = 1
  /\ m_maxCopies = 1
  /\ net = << >>

NextLife ==
  \/ \E claStarts \in BOOLEAN : LifeStart(claStarts)
  \/ LifeStop
  \/ \E b \in LifeInputs : LifeSend(b)
  \/ \E b \in LifeInputs, source \in Peers : LifeReceive(b, source)
  \/ LifeCleanupTask
  \/ \E connections \in 0..MaxEndpoints : LifeRoutingTask(connections)
  \/ LifeSecondPass
  \/ SendBundle
  \/ LifeAdvance(MaxLifetime)

SpecLife == InitLife /\ [][NextLife]_vars

\* The dispatching thread goes on whenever it can: a pass that has a
\* SendBundle call to make makes it.
SpecLifeFair == SpecLife /\ WF_vars(SendBundle)

\* ------------------------------------------------------------------- CBOR
\* Cbor::CborValue
CborUnsigned(n) == [type |-> "UNSIGNED_INTEGER", val |-> n]
CborNegative(n) == [type |-> "NEGATIVE_INTEGER", val |-> n]
CborText(s) == [type |-> "TEXT_STRING", val |-> s]
CborBytes(s) == [type |-> "BYTE_STRING", val |-> s]
CborArray(items) == [type |-> "ARRAY", val |-> items]

GetUnsignedInteger(c) == IF c.type = "UNSIGNED_INTEGER" THEN c.val ELSE 0

\* A Buffer is its first byte (major type and argument) and what the bytes
\* after it hold as a complete CBOR reader would read them: rest is a bundle
\* when the bytes are the full encoding of one, None otherwise.
EmptyBuffer == [major |-> -1, arg |-> 0, rest |-> None]

\* Cbor::Encode, of the values these paths give it (integers and arrays): the
\* header is written; the items of an array are encoded into buffers of their
\* own that are never appended.
Encode(value) ==
  CASE value.type = "UNSIGNED_INTEGER" -> [major |-> 0, arg |-> value.val, rest |-> None]
    [] value.type = "NEGATIVE_INTEGER" -> [major |-> 1, arg |-> -1 - value.val, rest |-> None]
    [] value.type = "ARRAY" -> [major |-> 4, arg |-> Len(value.val), rest |-> None]

\* Cbor::Decode: major types 0 and 1 only.
Decode(buffer) ==
  IF buffer = EmptyBuffer THEN None
  ELSE IF buffer.major = 0 THEN CborUnsigned(buffer.arg)
  ELSE IF buffer.major = 1 THEN CborNegative(-1 - buffer.arg)
  ELSE None

\* The CRC value a block carries: "" (none), "valid" (what CalculateCRC gives
\* for the block) or "invalid" (anything else).
\* PrimaryBlock::CheckCRC, CanonicalBlock::CheckCRC
CheckCRC(block) == block.crcType = NO_CRC \/ block.crcValue = "valid"

\* Bundle::CheckCRC
BundleCheckCRC(b) ==
  /\ CheckCRC(b.primary)
  /\ \A i \in 1..Len(b.blocks) : CheckCRC(b.blocks[i])

\* PrimaryBlock::IsFragment
PrimaryIsFragment(flags) == (flags \div BUNDLE_IS_A_FRAGMENT) % 2 = 1

\* PrimaryBlock::ToCbor
PrimaryToCbor(p) ==
  LET fields == << CborUnsigned(p.version), CborUnsigned(p.flags), CborUnsigned(p.crcType),
                   CborText(p.dest), CborText(p.source), CborText(p.reportTo),
                   CborArray(<< CborUnsigned(p.created), CborUnsigned(p.seq) >>),
                   CborUnsigned(p.lifetime) >>
      fragment == IF PrimaryIsFragment(p.flags)
                    THEN << CborUnsigned(p.fragOffset), CborUnsigned(p.totalLen) >>
                    ELSE << >>
      crc == IF p.crcType # NO_CRC /\ p.crcValue # ""
               THEN << CborBytes(p.crcValue) >>
               ELSE << >>
  IN Encode(CborArray(fields \o fragment \o crc))

\* PrimaryBlock::FromCbor
PrimaryFromCbor(buffer) ==
  LET cbor == Decode(buffer)
  IN IF cbor = None THEN None
     ELSE IF cbor.type # "ARRAY" THEN None
     ELSE IF Len(cbor.val) < 8 THEN None
     ELSE LET array == cbor.val
              flags == GetUnsignedInteger(array[2])
              crcType == GetUnsignedInteger(array[3])
              isFragment == PrimaryIsFragment(flags)
              crcIndex == IF isFragment THEN 11 ELSE 9
          IN IF array[7].type # "ARRAY" THEN None
             ELSE IF Len(array[7].val) # 2 THEN None
             ELSE IF isFragment /\ Len(array) < 10 THEN None
             ELSE IF crcType # NO_CRC /\ Len(array) < crcIndex THEN None
             ELSE IF crcType # NO_CRC /\ array[crcIndex].type # "BYTE_STRING" THEN None
             ELSE [version |-> GetUnsignedInteger(array[1]),
                   flags |-> flags,
                   crcType |-> crcType,
                   dest |-> array[4].val,
                   source |-> array[5].val,
                   reportTo |-> array[6].val,
                   created |-> GetUnsignedInteger(array[7].val[1]),
                   seq |-> GetUnsignedInteger(array[7].val[2]),
                   lifetime |-> GetUnsignedInteger(array[8]),
                   fragOffset |-> IF isFragment THEN GetUnsignedInteger(array[9]) ELSE 0,
                   totalLen |-> IF isFragment THEN GetUnsignedInteger(array[10]) ELSE 0,
                   crcValue |-> IF crcType # NO_CRC THEN array[crcIndex].val ELSE ""]

\* CanonicalBlock::ToCbor
BlockToCbor(c) ==
  LET fields == << CborUnsigned(c.blockType), CborUnsigned(c.blockNumber),
                   CborUnsigned(c.flags), CborUnsigned(c.crcType), CborBytes(c.data) >>
      crc == IF c.crcType # NO_CRC /\ c.crcValue # ""
               THEN << CborBytes(c.crcValue) >>
               ELSE << >>
  IN Encode(CborArray(fields \o crc))

\* CanonicalBlock::FromCbor
BlockFromCbor(buffer) ==
  LET cbor == Decode(buffer)
  IN IF cbor = None THEN None
     ELSE IF cbor.type # "ARRAY" THEN None
     ELSE IF Len(cbor.val) < 5 THEN None
     ELSE LET array == cbor.val
              crcType == GetUnsignedInteger(array[4])
          IN IF array[5].type # "BYTE_STRING" THEN None
             ELSE IF crcType # NO_CRC /\ Len(array) <= 5 THEN None
             ELSE IF crcType # NO_CRC /\ array[6].type # "BYTE_STRING" THEN None
             ELSE [blockType |-> GetUnsignedInteger(array[1]),
                   blockNumber |-> GetUnsignedInteger(array[2]),
                   flags |-> GetUnsignedInteger(array[3]),
                   crcType |-> crcType,
                   data |-> array[5].val,
                   crcValue |-> IF crcType # NO_CRC THEN array[6].val ELSE ""]

\* Bundle::ToCbor: every block is encoded, decoded again, and put into the
\* bundle's array when that decoding gave a value.
BundleToCbor(b) ==
  LET primaryCbor == Decode(PrimaryToCbor(b.primary))
      first == IF primaryCbor # None THEN << primaryCbor >> ELSE << >>
      blockCbor == [i \in 1..Len(b.blocks) |-> Decode(BlockToCbor(b.blocks[i]))]
      IsValue(c) == c # None
  IN Encode(CborArray(first \o SelectSeq(blockCbor, IsValue)))

\* A reader of complete encodings that validates no CRC.
BundleFromCborComplete(buffer) == buffer.rest

\* Bundle::FromCbor
BundleFromCbor(buffer) ==
  LET cbor == Decode(buffer)
  IN IF cbor = None THEN None
     ELSE IF cbor.type # "ARRAY" THEN None
     ELSE IF cbor.val = << >> THEN None
     ELSE IF cbor.val[1].type # "ARRAY" THEN None
     ELSE LET array == cbor.val
              primary == PrimaryFromCbor(Encode(array[1]))
              blockOpt == [i \in 1..(Len(array) - 1) |->
                             IF array[i + 1].type # "ARRAY"
                               THEN None
                               ELSE BlockFromCbor(Encode(array[i + 1]))]
              IsBlock(c) == c # None
          IN IF primary = None
               THEN None
               ELSE [primary |-> primary, blocks |-> SelectSeq(blockOpt, IsBlock)]

\* ---------------------------------------------------------- the UDP layer
\* Bundles on the wire: version 7, whole, one payload block; each block with
\* or without a CRC, and a CRC that is valid or not.
CrcChoices == { <<NO_CRC, "">>, <<CRC_16, "valid">>, <<CRC_16, "invalid">> }

WirePrimary(source, crc) ==
  [version |-> 7, flags |-> 0, crcType |-> crc[1], dest |-> LocalNode, source |-> source,
   reportTo |-> source, created |-> 0, seq |-> 1, lifetime |-> 1, fragOffset |-> 0,
   totalLen |-> 0, crcValue |-> crc[2]]

WireBlock(crc) ==
  [blockType |-> PAYLOAD_BLOCK, blockNumber |-> 1, flags |-> 0, crcType |-> crc[1],
   data |-> <<1>>, crcValue |-> crc[2]]

WireBundles ==
  { [primary |-> WirePrimary(source, pc1), blocks |-> << WireBlock(pc2) >>] :
      source \in Peers, pc1 \in CrcChoices, pc2 \in CrcChoices }

\* The bundles a sender cuts into datagram fragments.
FragmentedBundles == { b \in WireBundles : b.blocks[1].crcType = NO_CRC /\ b.primary.crcValue # "" }

\* The complete encoding of a bundle, as a peer puts it on the wire.
CompleteEncoding(b) == [major |-> 4, arg |-> 1 + Len(b.blocks), rest |-> b]

\* Datagrams from the address of the peer `from`: 0xBB and an encoded
\* bundle, or 0x1B, the header (bundleId, fragmentId, numFragments) and a
\* piece of the sender's encoded bundle.
WholeDatagrams ==
  { [type |-> "bundle", from |-> from, buffer |-> buffer] :
      from \in Peers,
      buffer \in { CompleteEncoding(b) : b \in WireBundles }
                   \cup { BundleToCbor(b) : b \in WireBundles } \cup { EmptyBuffer } }

FragmentDatagrams ==
  { [type |-> "fragment", from |-> b.primary.source, bundleId |-> bundleId,
     fragmentId |-> fragmentId, numFragments |-> numFragments,
     data |-> [from |-> b.primary.source, bundle |-> b]] :
      b \in FragmentedBundles, bundleId \in 1..NumBundleIds,
      fragmentId \in 0..(MaxFragments - 1), numFragments \in 1..MaxFragments }

\* The bytes of the fragments of a pending bundle put together in slot order:
\* a complete encoding when every piece is of one bundle of one sender.
Reassembled(fragments) ==
  LET first == fragments[1]
  IN [major |-> 4,
      arg |-> 1 + Len(first.bundle.blocks),
      rest |-> IF \A i \in 1..Len(fragments) : fragments[i] = first
                 THEN first.bundle
                 ELSE None]

\* The call of m_bundleCallback for a deserialized bundle.
Callback(bundleOpt, pieces) ==
  IF bundleOpt = None
    THEN callbackLog
    ELSE callbackLog \cup { [bundle |-> bundleOpt, source |-> bundleOpt.primary.source,
                             pieces |-> pieces] }

WireHistory(op, arg, ret) ==
  /\ lastOp' = op
  /\ lastArg' = arg
  /\ lastRet' = ret
  /\ samePush' = FALSE
  /\ dupPush' = FALSE

WireOther == <<storeVars, routingVars, nodeVars, passVars, logVars, sprayVars, netVars,
               fragVars, threadVars, m_cleanupEvent, m_routingEvent, tickPasses>>

\* UdpConvergenceLayer::Start
UdpStart ==
  /\ ~claRunning
  /\ claRunning' = TRUE
  /\ udpCleanupEvent' = now + UdpCleanupInterval
  /\ WireHistory("Start", None, TRUE)
  /\ UNCHANGED <<now, m_pendingBundles, callbackLog, WireOther>>

\* UdpConvergenceLayer::Stop
UdpStop ==
  /\ claRunning
  /\ claRunning' = FALSE
  /\ udpCleanupEvent' = -1
  /\ WireHistory("Stop", None, TRUE)
  /\ UNCHANGED <<now, m_pendingBundles, callbackLog, WireOther>>

\* UdpConvergenceLayer::HandleFragment, a datagram of type 0xBB
HandleWhole(d) ==
  /\ claRunning
  /\ LET bundleOpt == BundleFromCbor(d.buffer)
     IN /\ callbackLog' = Callback(bundleOpt, << >>)
        /\ WireHistory("HandleFragment", d, bundleOpt)
  /\ UNCHANGED <<now, m_pendingBundles, udpCleanupEvent, claRunning, WireOther>>

\* UdpConvergenceLayer::HandleFragment, a datagram of type 0x1B
HandleFragment(d) ==
  /\ claRunning
  /\ LET id == d.bundleId
         fresh == [fragments |-> [i \in 1..d.numFragments |-> None],
                   expiryTime |-> now + ReassemblyTimeout]
         found == IF id \in DOMAIN m_pendingBundles
                    THEN m_pendingBundles
                    ELSE [k \in DOMAIN m_pendingBundles \cup {id} |->
                            IF k = id THEN fresh ELSE m_pendingBundles[k]]
         stored == [found[id] EXCEPT !.fragments[d.fragmentId + 1] = d.data]
         complete == \A i \in 1..Len(stored.fragments) : stored.fragments[i] # None
         bundleOpt == BundleFromCbor(Reassembled(stored.fragments))
     IN IF d.fragmentId >= Len(found[id].fragments)
          THEN /\ m_pendingBundles' = found
               /\ callbackLog' = callbackLog
               /\ WireHistory("HandleFragment", d, None)
          ELSE IF complete
            THEN /\ m_pendingBundles' = [k \in DOMAIN found \ {id} |-> found[k]]
                 /\ callbackLog' = Callback(bundleOpt, stored.fragments)
                 /\ WireHistory("HandleFragment", d, bundleOpt)
            ELSE /\ m_pendingBundles' = [found EXCEPT ![id] = stored]
                 /\ callbackLog' = callbackLog
                 /\ WireHistory("HandleFragment", d, None)
  /\ UNCHANGED <<now, udpCleanupEvent, claRunning, WireOther>>

\* UdpConvergenceLayer::CleanupExpired, when its event is due
UdpCleanupExpired ==
  /\ udpCleanupEvent = now
  /\ m_pendingBundles' = [k \in { j \in DOMAIN m_pendingBundles :
                                    ~(now > m_pendingBundles[j].expiryTime) } |->
                            m_pendingBundles[k]]
  /\ udpCleanupEvent' = now + UdpCleanupInterval
  /\ WireHistory("CleanupExpired", None, None)
  /\ UNCHANGED <<now, claRunning, callbackLog, WireOther>>

\* UdpConvergenceLayer::SendBundle to a peer running the same code, and that
\* peer's HandleFragment: the encoded bundle is never over MAX_FRAGMENT_SIZE
\* (Cbor::Encode returns its 1024-byte buffer), so it travels in one 0xBB
\* datagram; the result is what the receiver deserialized.
SendAndReceive(b) ==
  /\ claRunning
  /\ LET bundleOpt == BundleFromCbor(BundleToCbor(b))
     IN /\ callbackLog' = Callback(bundleOpt, << >>)
        /\ WireHistory("SendAndReceive", b, bundleOpt)
  /\ UNCHANGED <<now, m_pendingBundles, udpCleanupEvent, claRunning, WireOther>>

\* Simulator time passes up to the next event.
WireAdvance ==
  /\ now < MaxWireTime
  /\ udpCleanupEvent = -1 \/ now < udpCleanupEvent
  /\ now' = now + 1
  /\ WireHistory("Advance", None, None)
  /\ UNCHANGED <<wireVars, claRunning, WireOther>>

InitWire ==
  /\ InitIdle
  /\ m_maxBundles = 1
  /\ m_maxCopies = 1
  /\ net = << >>

NextWire ==
  \/ UdpStart
  \/ UdpStop
  \/ claRunning /\ \E d \in WholeDatagrams : HandleWhole(d)
  \/ claRunning /\ \E d \in FragmentDatagrams : HandleFragment(d)
  \/ UdpCleanupExpired
  \/ claRunning /\ \E b \in WireBundles : SendAndReceive(b)
  \/ WireAdvance

SpecWire == InitWire /\ [][NextWire]_vars

\* ------------------------------------------- routing, one thread per caller
\* NotifyNewBundle runs on the thread of the convergence layer that received
\* the bundle, DispatchBundles on the thread of the routing timer. The store
\* has room for one bundle, so the bundle object it holds is never replaced.
ThreadInputs ==
  [bundle : { b \in WholeBundles : b.seq = 1 /\ b.created = 0 /\
                                   b.lifetime = MaxLifetime /\ b.dest = NumPeers },
   previousNode : {-1} \cup Peers]

ThreadHistory(op, arg, ret) ==
  /\ lastOp' = op
  /\ lastArg' = arg
  /\ lastRet' = ret
  /\ samePush' = FALSE
  /\ dupPush' = FALSE

ThreadOther == <<now, m_maxBundles, m_getCount, m_removeCount, m_peers, nodeVars,
                 passVars, logVars, sprayVars, netVars, fragVars, lifeVars, wireVars>>

\* EpidemicRouting::NotifyNewBundle, up to the return of m_store->Push
NotifyPush(in, source) ==
  /\ notifyPc = "idle"
  /\ PushAccepts(in.bundle) => m_pushCount < MaxCount
  /\ IF PushAccepts(in.bundle)
       THEN /\ m_bundles' = StorePut(m_bundles, in.bundle)
            /\ m_pushCount' = PushCount(TRUE)
            /\ previousNode' = in.previousNode
            /\ notifyPc' = "update"
            /\ notifySource' = source
       ELSE UNCHANGED <<m_bundles, m_pushCount, previousNode, notifyPc, notifySource>>
  /\ ThreadHistory("NotifyNewBundle", source, PushAccepts(in.bundle))
  /\ UNCHANGED <<ThreadOther, rt_bundles, m_sentBundles, m_failedBundles, notifySeen,
                 dispatchPc, dispatchPeers, m_bundlesMutex>>

\* RoutingAlgorithm::UpdateBundleDescriptor as NotifyNewBundle calls it: its
\* lock_guard takes m_bundlesMutex and has released it when the reference
\* to the descriptor is returned.
NotifyUpdate ==
  /\ notifyPc = "update"
  /\ m_bundlesMutex = "free"
  /\ \E id \in DOMAIN m_bundles :
       rt_bundles' = UpdateBundleDescriptor(rt_bundles, m_bundles[id])
  /\ notifyPc' = "sentTo"
  /\ ThreadHistory("UpdateBundleDescriptor", notifySource, None)
  /\ UNCHANGED <<ThreadOther, m_bundles, m_pushCount, m_sentBundles, m_failedBundles,
                 notifySource, notifySeen, dispatchPc, dispatchPeers, m_bundlesMutex,
                 previousNode>>

\* desc.AddSentNode (source) in NotifyNewBundle, its test !SentTo (node)
NotifySentTo ==
  /\ notifyPc = "sentTo"
  /\ \E id \in DOMAIN rt_bundles :
       /\ notifySeen' = rt_bundles[id].sentNodes
       /\ notifyPc' = IF SentTo(rt_bundles[id], notifySource) THEN "idle" ELSE "pushBack"
  /\ ThreadHistory("SentTo", notifySource, None)
  /\ UNCHANGED <<ThreadOther, m_bundles, m_pushCount, rt_bundles, m_sentBundles,
                 m_failedBundles, notifySource, dispatchPc, dispatchPeers, m_bundlesMutex,
                 previousNode>>

\* desc.AddSentNode (source) in NotifyNewBundle, its sentNodes.push_back. When
\* the other thread has written the vector since SentTo read it, the two
\* unsynchronised accesses are a data race: the write lands on the vector as
\* it is ("kept") or on the vector as it was read ("lost").
NotifyPushBack ==
  /\ notifyPc = "pushBack"
  /\ \E id \in DOMAIN rt_bundles :
       \E outcome \in IF rt_bundles[id].sentNodes = notifySeen
                        THEN {"kept"} ELSE {"kept", "lost"} :
         /\ rt_bundles' =
              [rt_bundles EXCEPT ![id].sentNodes =
                 (IF outcome = "kept" THEN @ ELSE notifySeen) \cup {notifySource}]
         /\ ThreadHistory("push_back", notifySource, outcome)
  /\ notifyPc' = "idle"
  /\ UNCHANGED <<ThreadOther, m_bundles, m_pushCount, m_sentBundles, m_failedBundles,
                 notifySource, notifySeen, dispatchPc, dispatchPeers, m_bundlesMutex,
                 previousNode>>

\* EpidemicRouting::DispatchBundles, from its entry to the inner loop over
\* the active peers: the lock_guard of the loop body takes m_bundlesMutex,
\* and an expired descriptor ends the body.
DispatchLock ==
  /\ dispatchPc = "idle"
  /\ m_bundlesMutex = "free"
  /\ \E id \in DOMAIN m_bundles :
       IF id \in DOMAIN rt_bundles /\ DescriptorIsExpired(rt_bundles[id])
         THEN UNCHANGED <<dispatchPc, dispatchPeers, m_bundlesMutex>>
         ELSE /\ dispatchPc' = "peers"
              /\ dispatchPeers' = ActivePeers(m_peers)
              /\ m_bundlesMutex' = "dispatch"
  /\ ThreadHistory("DispatchBundles", None, None)
  /\ UNCHANGED <<ThreadOther, m_bundles, m_pushCount, rt_bundles, m_sentBundles,
                 m_failedBundles, notifyPc, notifySource, notifySeen, previousNode>>

\* RoutingAlgorithm::SendBundle, the bundle's previous-node block: created, or
\* rewritten to the local node, once a sender reports the endpoint reachable
\* and before that sender's Send is called.
PreviousNodeAfter(outcome) ==
  IF outcome = "unreachable" THEN previousNode ELSE LocalNode

\* One turn of the inner loop of DispatchBundles: the three skips, then
\* SendBundle with the outcomes of the action SendBundle. After "sent" the
\* lock_guard inside SendBundle has unlocked m_bundlesMutex.
DispatchPeer(p) ==
  /\ dispatchPc = "peers"
  /\ p \in dispatchPeers
  /\ dispatchPeers' = dispatchPeers \ {p}
  /\ \E id \in DOMAIN m_bundles :
       IF ~Eligible(id, p)
         THEN /\ ThreadHistory("skip", p, None)
              /\ UNCHANGED <<rt_bundles, m_sentBundles, m_failedBundles, dispatchPc,
                             m_bundlesMutex, previousNode>>
         ELSE \E outcome \in {"unreachable", "failed", "sent", "hung"} :
                /\ outcome \in {"unreachable", "failed"} => m_failedBundles < MaxNodeCount
                /\ outcome = "sent" => m_sentBundles < MaxNodeCount
                /\ previousNode' = PreviousNodeAfter(outcome)
                /\ m_failedBundles' = FailedAfter(outcome)
                /\ m_sentBundles' = IF outcome = "sent" THEN m_sentBundles + 1
                                                       ELSE m_sentBundles
                /\ rt_bundles' = DescriptorsAfter(<<id, p>>, outcome)
                /\ dispatchPc' = IF outcome = "hung" THEN "hung" ELSE "peers"
                /\ m_bundlesMutex' = IF outcome = "sent" THEN "free" ELSE m_bundlesMutex
                /\ ThreadHistory("SendBundle", p,
                                 IF outcome = "unreachable" THEN "failed" ELSE outcome)
  /\ UNCHANGED <<ThreadOther, m_bundles, m_pushCount, notifyPc, notifySource, notifySeen>>

\* EpidemicRouting::DispatchBundles, the end of the loop body: its lock_guard
\* unlocks m_bundlesMutex.
DispatchUnlock ==
  /\ dispatchPc = "peers"
  /\ dispatchPeers = {}
  /\ dispatchPc' = "idle"
  /\ m_bundlesMutex' = "free"
  /\ ThreadHistory("unlock", None, None)
  /\ UNCHANGED <<ThreadOther, m_bundles, m_pushCount, rt_bundles, m_sentBundles,
                 m_failedBundles, dispatchPeers, notifyPc, notifySource, notifySeen,
                 previousNode>>

InitThreads ==
  /\ InitIdle
  /\ m_maxBundles = 1
  /\ m_maxCopies = 1
  /\ net = << >>

\* The peers are made known before the two threads start.
ThreadPeerAppeared(p) ==
  /\ m_bundles = << >>
  /\ p \notin DOMAIN m_peers
  /\ m_peers' = [q \in DOMAIN m_peers \cup {p} |->
                   IF q = p THEN [nodeID |-> p, lastSeen |-> now,
                                  reachable |-> TRUE, endpoint |-> p]
                            ELSE m_peers[q]]
  /\ ThreadHistory("NotifyPeerAppeared", p, None)
  /\ UNCHANGED <<now, storeVars, rt_bundles, m_sentBundles, m_failedBundles, nodeVars,
                 passVars, logVars, extVars>>

NextThreads ==
  \/ \E p \in Peers : ThreadPeerAppeared(p)
  \/ \E in \in ThreadInputs, source \in Peers : NotifyPush(in, source)
  \/ NotifyUpdate
  \/ NotifySentTo
  \/ NotifyPushBack
  \/ DispatchLock
  \/ \E p \in Peers : DispatchPeer(p)
  \/ DispatchUnlock

SpecThreads == InitThreads /\ [][NextThreads]_vars

\* ------------------------------------------------------- store properties
ExpiresAt(b) == b.created + b.lifetime

\* C1: the store never holds more than its configured capacity, and a Push
\* made while it already holds that many bundles returns false and leaves
\* the stored bundles unchanged.
C1_CapacityRespected ==
  /\ [](Count <= m_maxBundles)
  /\ [][(lastOp' = "Push" /\ Count = m_maxBundles)
          => (lastRet' = FALSE /\ m_bundles' = m_bundles)]_vars

C1_Witness == lastOp = "Push" /\ lastRet = FALSE /\ Count = m_maxBundles

\* C2 as stated: a Push of a bundle whose ID is already stored returns false.
C2_DuplicateRejected == dupPush => lastRet = FALSE

\* C2 amended: a Push of a bundle whose ID is already stored is accepted
\* exactly when the store is below capacity; it then returns true, replaces
\* the bundle stored under that ID and counts as a push.
C2_DuplicateOverwrites ==
  [][(lastOp' = "Push" /\ GetId(lastArg') \in DOMAIN m_bundles)
       => /\ lastRet' = (Count < m_maxBundles)
          /\ lastRet' => /\ DOMAIN m_bundles' = DOMAIN m_bundles
                         /\ m_bundles'[GetId(lastArg')] = lastArg'
                         /\ \A i \in DOMAIN m_bundles \ {GetId(lastArg')} :
                              m_bundles'[i] = m_bundles[i]
                         /\ m_pushCount' = m_pushCount + 1
          /\ ~lastRet' => m_bundles' = m_bundles /\ m_pushCount' = m_pushCount]_vars

C2_Witness == dupPush /\ lastRet = TRUE /\ lastOp = "Push"

\* C3 as stated: pushing the same bundle a second time leaves the stored
\* bundles and the store counters as the first push left them.
C3_PushTwiceSameState ==
  [][(lastOp = "Push" /\ lastOp' = "Push" /\ lastArg' = lastArg)
       => /\ m_bundles' = m_bundles
          /\ m_pushCount' = m_pushCount
          /\ m_getCount' = m_getCount
          /\ m_removeCount' = m_removeCount]_vars

\* C3 amended: pushing the same bundle a second time leaves the stored
\* bundles, the get counter and the remove counter as the first push left
\* them; the push counter is one higher when the second push is accepted.
C3_PushTwiceSameBundles ==
  [][(lastOp = "Push" /\ lastOp' = "Push" /\ lastArg' = lastArg)
       => /\ m_bundles' = m_bundles
          /\ m_getCount' = m_getCount
          /\ m_removeCount' = m_removeCount
          /\ m_pushCount' = IF lastRet' THEN m_pushCount + 1 ELSE m_pushCount]_vars

C3_Witness == samePush /\ lastRet = TRUE /\ GetId(lastArg) \in DOMAIN m_bundles

\* C4 as stated: Get returns a bundle only if it is stored and not expired.
C4_GetHidesExpired ==
  (lastOp = "Get" /\ lastRet # None) => ~(now > ExpiresAt(lastRet))

\* C4 amended: Get returns the bundle stored under the ID whenever one is
\* stored, expired or not, and absent otherwise.
C4_GetReturnsStored ==
  lastOp = "Get" =>
    lastRet = IF lastArg \in DOMAIN m_bundles THEN m_bundles[lastArg] ELSE None

C4_Witness == lastOp = "Get" /\ lastRet # None /\ now > ExpiresAt(lastRet)

\* C5 as stated: the store never holds a bundle with now > creation + lifetime.
C5_NoExpiredStored ==
  \A i \in DOMAIN m_bundles : now <= ExpiresAt(m_bundles[i])

\* C5 amended: when Cleanup returns, no stored bundle is expired; between
\* cleanup sweeps the store may hold expired bundles.
C5_NoExpiredAfterCleanup ==
  lastOp = "Cleanup" => \A i \in DOMAIN m_bundles : now <= ExpiresAt(m_bundles[i])

C5_Witness == lastOp = "Cleanup" /\ lastRet >= 1 /\ m_bundles # << >>

\* C6: Cleanup removes exactly the stored bundles with creation + lifetime
\* earlier than now, returns how many it removed, leaves the other entries
\* as they were, and a Get of a removed ID then finds nothing.
C6_CleanupExact ==
  [][lastOp' = "Cleanup" =>
       LET gone == { i \in DOMAIN m_bundles : ExpiresAt(m_bundles[i]) < now }
       IN /\ DOMAIN m_bundles' = DOMAIN m_bundles \ gone
          /\ \A i \in DOMAIN m_bundles' : m_bundles'[i] = m_bundles[i]
          /\ lastRet' = Cardinality(gone)
          /\ m_removeCount' = m_removeCount + Cardinality(gone)
          /\ \A i \in gone : ~GetFound(i)']_vars

C6_Witness == lastOp = "Cleanup" /\ lastRet = 2 /\ Count = 0

\* ----------------------------------------------------- routing properties
\* A step that is one SendBundle call of a dispatch pass.
SendBundleCalled == pc = "dispatch" /\ lastOp' = "SendBundle"

\* A step that begins a dispatch pass.
PassBegins == pc = "idle" /\ lastOp' \in {"DispatchBundles", "NotifyPeerAppeared"}

\* C7: the routing engine performs at most one successful transmission of a
\* given bundle to a given peer, for every bundle in the store, the
\* incomplete fragments the node stored on receipt included.
C7_AtMostOneTransmission == dupTx = {}

\* C8: once NotifyNewBundle(b, s) has stored b, the descriptor of b exists
\* and holds s in its sent-to set, and no later dispatch pass calls SendBundle
\* for b and s.
C8_SourceNeverSentBack ==
  /\ [](\A pr \in notified :
          pr[1] \in DOMAIN rt_bundles /\ SentTo(rt_bundles[pr[1]], pr[2]))
  /\ [][SendBundleCalled => lastArg' \notin notified]_vars

\* C8 witness: a pass transmitted a bundle to one peer while the peer the
\* bundle came from was active and passed every other test of the pass.
C8_Witness ==
  /\ lastOp = "SendBundle"
  /\ lastRet = "sent"
  /\ \E pr \in notified :
       /\ pr[1] = lastArg[1]
       /\ pr[2] # lastArg[2]
       /\ pr[1] \in DOMAIN m_bundles
       /\ pr[2] \in ActivePeers(m_peers)
       /\ EligibleIgnoringSentTo(pr[1], pr[2])

\* C9 as stated: for every descriptor d and every peer p in d's sent-to set,
\* a successful send of d's bundle to p was recorded earlier.
C9_SentToImpliesSend ==
  \A id \in DOMAIN rt_bundles :
    \A p \in rt_bundles[id].sentNodes : <<id, p>> \in txLog

\* C9 amended: every member p of a descriptor's sent-to set is there because
\* a send of the bundle to p succeeded earlier or because NotifyNewBundle
\* stored the bundle with p as its source.
C9_SentToImpliesSendOrSource ==
  \A id \in DOMAIN rt_bundles :
    \A p \in rt_bundles[id].sentNodes :
      <<id, p>> \in txLog \/ <<id, p>> \in notified

\* C9 witness: one descriptor holds a peer put there by a successful send and
\* a node put there as the bundle's source, without any send to it.
C9_Witness ==
  \E id \in DOMAIN rt_bundles :
    \E p, q \in rt_bundles[id].sentNodes :
      /\ <<id, p>> \in txLog /\ <<id, p>> \notin notified
      /\ <<id, q>> \in notified /\ <<id, q>> \notin txLog

\* C10 as stated, the part that fails: when a pass has run to its end, every
\* pair whose transmission failed in the pass before was attempted in it.
C10_FailedRetriedNextPass == pc = "idle" => prevFailed \subseteq passTried

\* A pair is still a candidate when a pass begins: the bundle is still stored
\* and unexpired, is not for the local node, the peer is active and is not in
\* the sent-to set of the bundle's descriptor.
C10_StillCandidate(pair, peers) ==
  /\ pair[1] \in DOMAIN m_bundles
  /\ pair[2] \in DOMAIN peers
  /\ peers[pair[2]].reachable /\ now - peers[pair[2]].lastSeen < ActiveWindow
  /\ m_bundles[pair[1]].dest # LocalNode
  /\ pair[1] \in DOMAIN rt_bundles =>
       /\ ~(now > rt_bundles[pair[1]].expirationTime)
       /\ pair[2] \notin rt_bundles[pair[1]].sentNodes

\* C10 amended: a SendBundle call that fails adds one to the failure counter
\* and leaves the descriptors and the sent counter as they were; a pass calls
\* SendBundle at most once for a pair; every pass that ends has visited all
\* its pairs; and the pass after a failure attempts the pair again when the
\* pair is still a candidate as that pass begins.
C10_FailedSendLeavesCandidate ==
  /\ [][(SendBundleCalled /\ lastRet' = "failed") =>
          /\ m_failedBundles' = m_failedBundles + 1
          /\ rt_bundles' = rt_bundles
          /\ m_sentBundles' = m_sentBundles
          /\ lastArg' \in passFailed']_vars
  /\ [][SendBundleCalled => lastArg' \notin passTried]_vars
  /\ [](pc = "idle" => passTodo = {})
  /\ [][PassBegins =>
          \A pair \in passFailed :
            C10_StillCandidate(pair, m_peers') => pair \in passTodo']_vars

\* C10 witness: a pass ran to its end and attempted a pair whose transmission
\* failed in the pass before.
C10_Witness == pc = "idle" /\ lastOp = "SendBundle" /\ prevFailed \cap passTried # {}

\* The pairs C11 names when a pass begins with peer table `peers`: a stored
\* bundle that is not expired and not for the local node, and an active peer
\* that is not in the sent-to set of the bundle's descriptor.
C11_FilteredPairs(peers) ==
  { pair \in (DOMAIN m_bundles) \X ActivePeers(peers) :
      /\ ~IsExpired(m_bundles[pair[1]])
      /\ m_bundles[pair[1]].dest # LocalNode
      /\ ~(pair[1] \in DOMAIN rt_bundles /\ SentTo(rt_bundles[pair[1]], pair[2])) }

\* C11: an epidemic dispatch pass attempts a transmission for exactly the
\* pairs (stored bundle, active peer) that pass the universal filters (bundle
\* not expired, destination not the local node, peer not in the sent-to set);
\* with no active peer it attempts none.
C11_AttemptsExactlyFiltered ==
  [][PassBegins => passTodo' = C11_FilteredPairs(m_peers')]_vars

\* C34: no dispatch pass transmits a bundle whose creation time plus lifetime
\* lies in the past, whether or not routing holds a descriptor for it.
C34_NoExpiredTransmitted ==
  [][(SendBundleCalled /\ lastRet' \in {"sent", "hung"})
       => ~IsExpired(m_bundles[lastArg'[1]])]_vars

\* ------------------------------------------------------- spray properties
\* C12: in spray-and-wait a bundle whose copy count is <= 1 is transmitted
\* only to the peer that is the bundle's destination; with max-copies = 1
\* every admitted bundle has copy count 1.
C12_WaitPhaseOnlyDestination ==
  /\ (sprayLast.outcome \in {"sent", "hung"} /\ sprayLast.before <= 1)
        => sprayLast.toDestination
  /\ m_maxCopies = 1 => \A id \in DOMAIN m_copies : m_copies[id] = 1

\* C13: for a copy count c > 1, a successful forward in the spray phase gives
\* the peer floor(c/2) and leaves the local count at c - floor(c/2).
C13_SprayHalves ==
  (sprayLast.outcome = "sent" /\ sprayLast.phase = "spray" /\ sprayLast.before > 1)
    => /\ sprayLast.peerCopies = sprayLast.before \div 2
       /\ sprayLast.after = sprayLast.before - (sprayLast.before \div 2)

\* C14: a failed transmission attempt of a spray pass leaves the bundle's
\* copy count as it was before the attempt.
C14_FailedSendKeepsCount ==
  sprayLast.outcome = "failed" => sprayLast.after = sprayLast.before

\* The sum of the copy counts the nodes of the network hold for the bundle.
RECURSIVE NetCopiesUpTo(_)
NetCopiesUpTo(n) == IF n < 0 THEN 0 ELSE net[n].copies + NetCopiesUpTo(n - 1)

\* No transmission is under way and none has failed.
NetQuiet == netFlight = {} /\ \A n \in NetNodes : net[n].m_failedBundles = 0

\* C15: the copy counts the nodes hold for one bundle sum to at most
\* max-copies; with max-copies 4, after the source (node 0) met relay 1 the
\* counts are 2 and 2, and after it then met relay 2 they are 1 at the source
\* and 1 at relay 2.
C15_CopiesBounded ==
  /\ NetCopiesUpTo(NumPeers) <= m_maxCopies
  /\ (m_maxCopies = 4 /\ NetQuiet /\ netLog = << <<0, 1>> >>)
       => (net[0].copies = 2 /\ net[1].copies = 2)
  /\ (m_maxCopies = 4 /\ NetQuiet /\ netLog = << <<0, 1>>, <<0, 2>> >>)
       => (net[0].copies = 1 /\ net[2].copies = 1)

\* ------------------------------------------------- fragmentation properties
\* The last fragmenting call was given a bundle that must not be fragmented,
\* an administrative record, or a bundle that fits the maximum size.
C16_MustRefuse ==
  /\ fragArg # None
  /\ \/ fragArg.bundle.mustNotFragment
     \/ fragArg.bundle.isAdmin
     \/ BundleCborSize(fragArg.bundle) <= fragArg.maxFragmentSize

\* C16: a fragmenting call (FragmentationManager::FragmentBundle or
\* Bundle::Fragment) given a bundle with must-not-fragment set, an
\* administrative record, or a bundle whose encoded size is at most the
\* maximum fragment size returns the empty list and leaves the bundle and
\* the fragmentation statistics as they were.
C16_RefusalReturnsNothing ==
  C16_MustRefuse =>
    /\ pc = "idle"
    /\ fragOut = << >>
    /\ fragArg.after = fragArg.bundle
    /\ m_fragmentedBundles = 0
    /\ m_createdFragments = 0

\* FragmentationManager::FragmentBundle returned fragments.
C17_Produced == fragArg # None /\ fragArg.op = "FragmentBundle" /\ fragOut # << >>

\* C17: when FragmentBundle produces fragments of a payload of length T with
\* per-fragment budget B there are ceil(T/B) of them; the i-th (from 0) is a
\* fragment with offset i*B and total length T whose payload is the slice of
\* the original at that offset, B bytes long but for the last, which holds
\* the remainder: the byte ranges partition [0, T).
C17_FragmentsPartition ==
  C17_Produced =>
    LET b == fragArg.bundle
        T == Len(b.payload)
        B == MaxPayloadPerFragment(b, fragArg.maxFragmentSize)
        n == Len(fragOut)
    IN /\ (n - 1) * B < T
       /\ T <= n * B
       /\ \A i \in 1..n :
            /\ fragOut[i].isFragment
            /\ fragOut[i].fragOffset = (i - 1) * B
            /\ fragOut[i].totalLen = T
            /\ fragOut[i].payload =
                 SubSeq(b.payload, (i - 1) * B + 1, IF i = n THEN T ELSE i * B)

C17_Witness ==
  /\ C17_Produced
  /\ Len(fragOut) = 2
  /\ Len(fragOut[2].payload) < Len(fragOut[1].payload)

\* The fragment offsets a fragment set holds.
HeldOffsets(sets, oid) ==
  IF oid \in DOMAIN sets
    THEN { sets[oid].fragments[k].fragOffset : k \in 1..Len(sets[oid].fragments) }
    ELSE {}

\* The offsets of all the fragments the fragmenting call returned.
AllOffsets == { fragOut[i].fragOffset : i \in DOMAIN fragOut }

\* The step hands a fragment to AddFragment.
AddFragmentCalled == lastOp' = "AddFragment"

\* r is the bundle b: the same primary block (fragment fields apart), the
\* same payload bytes and the same non-payload blocks.
SameBundle(r, b) ==
  /\ r.seq = b.seq
  /\ r.created = b.created
  /\ r.lifetime = b.lifetime
  /\ r.dest = b.dest
  /\ r.mustNotFragment = b.mustNotFragment
  /\ r.isAdmin = b.isAdmin
  /\ ~r.isFragment
  /\ r.payload = b.payload
  /\ r.blocks = b.blocks

\* C18: when the fragments of a bundle b arrive in any order, AddFragment
\* returns a bundle exactly when the last missing fragment arrives, and the
\* bundle returned is b (CRCs apart).
C18_RoundTrip ==
  [][AddFragmentCalled =>
       LET before == HeldOffsets(m_fragmentSets, GetOriginalBundleId(lastArg'))
           lastMissing == /\ lastArg'.fragOffset \notin before
                          /\ before \cup {lastArg'.fragOffset} = AllOffsets
       IN /\ (lastRet' # None) <=> lastMissing
          /\ (lastRet' # None) => SameBundle(lastRet', fragArg.bundle)]_vars

\* C19: a fragment whose offset its fragment set already holds is refused:
\* AddFragment returns no bundle and leaves the set (fragments, total length,
\* expiration, complete flag) as it was; and the arrival of the last missing
\* fragment, after refusals or not, returns the reassembled bundle.
C19_DuplicateRefused ==
  [][AddFragmentCalled =>
       LET before == HeldOffsets(m_fragmentSets, GetOriginalBundleId(lastArg'))
       IN /\ lastArg'.fragOffset \in before =>
               (lastRet' = None /\ m_fragmentSets' = m_fragmentSets)
          /\ (/\ lastArg'.fragOffset \notin before
              /\ before \cup {lastArg'.fragOffset} = AllOffsets) => lastRet' # None]_vars

C19_Witness == dupRejected /\ lastOp = "AddFragment" /\ lastRet # None

\* C20: a fragment that arrives after the expiration instant of its fragment
\* set (creation time plus lifetime) is discarded: AddFragment returns no
\* bundle, adds it to no held set and creates no set for it.
C20_LateFragmentDiscarded ==
  [][(AddFragmentCalled /\ now > ToTime(lastArg'.created) + lastArg'.lifetime) =>
       (lastRet' = None /\ m_fragmentSets' = m_fragmentSets)]_vars

\* --------------------------------------------------- node life properties
\* The step is a call of DtnNode::HandleReceivedBundle.
HandleReceivedBundleCalled == lastOp' = "HandleReceivedBundle" /\ vars' # vars

\* The step is a call of DtnNode::Send.
SendCalled == lastOp' = "Send" /\ vars' # vars

\* C21: a received bundle whose hop count is over its limit is dropped: it
\* is not stored, not delivered and not handed to routing.
C21_HopLimitEnforced ==
  [][(HandleReceivedBundleCalled /\ lastArg'.bundle.hopCount > lastArg'.bundle.hopLimit) =>
       (/\ m_bundles' = m_bundles
        /\ rt_bundles' = rt_bundles
        /\ notified' = notified
        /\ m_deliveredBundles' = m_deliveredBundles)]_vars

\* C22: a received bundle that is not a fragment counts as received; when
\* its destination is the local node it counts as delivered and routing
\* does not see it; otherwise it goes to routing (NotifyNewBundle, which
\* stores it when the store has room) with the reported source, and the
\* delivered count stays.
C22_ReceiveDeliversOrRoutes ==
  [][HandleReceivedBundleCalled =>
       LET b == lastArg'.bundle
           source == lastArg'.source
       IN /\ m_receivedBundles' = m_receivedBundles + 1
          /\ b.dest = LocalNode =>
               (/\ m_deliveredBundles' = m_deliveredBundles + 1
                /\ m_bundles' = m_bundles
                /\ m_pushCount' = m_pushCount
                /\ rt_bundles' = rt_bundles
                /\ notified' = notified)
          /\ b.dest # LocalNode =>
               (/\ m_deliveredBundles' = m_deliveredBundles
                /\ IF Count < m_maxBundles
                     THEN /\ m_bundles'[GetId(b)] = b
                          /\ m_pushCount' = m_pushCount + 1
                          /\ <<GetId(b), source>> \in notified'
                          /\ source \in rt_bundles'[GetId(b)].sentNodes
                     ELSE m_bundles' = m_bundles /\ rt_bundles' = rt_bundles)]_vars

C22_Witness ==
  /\ lastOp = "HandleReceivedBundle"
  /\ lastArg.bundle.dest # LocalNode
  /\ <<GetId(lastArg.bundle), lastArg.source>> \in notified
  /\ m_deliveredBundles = 1

\* C23: while the node is not running no cleanup tick and no routing tick
\* (nor any dispatch pass of it) runs, the convergence layer is stopped and
\* hands over no bundle, no timer is pending, and Send returns false and
\* changes nothing.
C23_StoppedNodeIsQuiet ==
  [][(~m_running /\ vars' # vars) =>
       (/\ ~claRunning /\ ~m_cleanupEvent /\ ~m_routingEvent
        /\ lastOp' \notin {"CleanupExpiredBundles", "RoutingTask", "DispatchBundles",
                           "SendBundle", "HandleReceivedBundle"}
        /\ lastOp' = "Send" => lastRet' = FALSE
        /\ <<m_bundles, m_pushCount, rt_bundles, notified, m_receivedBundles,
             m_deliveredBundles>>' =
           <<m_bundles, m_pushCount, rt_bundles, notified, m_receivedBundles,
             m_deliveredBundles>>)]_vars

C23_Witness ==
  /\ ~m_running
  /\ m_receivedBundles > 0
  /\ Count > 0
  /\ lastOp = "Send"
  /\ lastRet = FALSE

\* C26: DtnNode::Send returns true only when the store took the bundle.
C26_SendTrueMeansStored ==
  [][(SendCalled /\ lastRet' = TRUE) =>
       (/\ m_pushCount' = m_pushCount + 1
        /\ GetId(lastArg') \in DOMAIN m_bundles'
        /\ m_bundles'[GetId(lastArg')] = lastArg')]_vars

\* ------------------------------------------------- wire and UDP properties
\* C24: a structurally valid bundle that is encoded (Bundle::ToCbor) and
\* decoded again (Bundle::FromCbor) comes back, equal to the original.
C24_RoundTrip ==
  (lastOp = "SendAndReceive" /\ BundleCheckCRC(lastArg)) => lastRet = lastArg

\* The bundle a datagram of type 0xBB carries, None when its bytes are not
\* the encoding of one.
Carried(d) == d.buffer.rest

FragmentHandled == lastOp' = "HandleFragment" /\ vars' # vars /\ lastArg'.type = "fragment"

\* The source addresses of the fragments a pending bundle holds.
HeldFrom(pending) ==
  { pending.fragments[i].from :
      i \in { j \in 1..Len(pending.fragments) : pending.fragments[j] # None } }

\* C27: a datagram fragment leaves alone every pending reassembly that holds
\* fragments of other source addresses only, whatever its bundle-id.
C27_IndependentReassembly ==
  [][FragmentHandled =>
       \A id \in DOMAIN m_pendingBundles :
         (HeldFrom(m_pendingBundles[id]) # {} /\ lastArg'.from \notin HeldFrom(m_pendingBundles[id])) =>
           (id \in DOMAIN m_pendingBundles' /\ m_pendingBundles'[id] = m_pendingBundles[id])]_vars

\* C28: a fragment that arrives for a pending reassembly more than 60 seconds
\* after that reassembly's first fragment is not added to it, and completes
\* nothing.
C28_ExpiredNeverCompletes ==
  [][(/\ FragmentHandled
      /\ lastArg'.bundleId \in DOMAIN m_pendingBundles
      /\ HeldFrom(m_pendingBundles[lastArg'.bundleId]) # {}
      /\ now > m_pendingBundles[lastArg'.bundleId].expiryTime) =>
       (m_pendingBundles' = m_pendingBundles /\ callbackLog' = callbackLog)]_vars

\* ------------------------------------------------------- locking properties
\* C29: every dispatch pass terminates: a pass that has begun comes to its
\* end, also when a send succeeded and the descriptor of the bundle is
\* updated under m_bundlesMutex.
C29_PassTerminates == (pc = "dispatch") ~> (pc = "idle")

\* C30: no attempt of a dispatch pass acquires a core lock while the
\* dispatching thread holds one.
C30_NoNestedCoreLock ==
  [][(pc = "dispatch" /\ sprayLast' # NoAttempt /\ vars' # vars) =>
       (DispatchHolds = {} \/ AttemptAcquires(sprayLast') = {})]_vars

\* ------------------------------------------------- fragment size properties
\* FragmentBundle has been called and went on to compute its budget.
FragmentationProceeds ==
  /\ fragArg # None
  /\ fragArg.op = "FragmentBundle"
  /\ ~ManagerRefuses(fragArg.bundle, fragArg.maxFragmentSize)

LargerOf(a, b) == IF a >= b THEN a ELSE b

\* C35: whenever fragmentation proceeds, the per-fragment payload budget is
\* the larger of (maximum fragment size - header overhead) and
\* (maximum fragment size / 2), and it is not 0.
C35_BudgetIsLargerOf ==
  FragmentationProceeds =>
    LET budget == MaxPayloadPerFragment(fragArg.bundle, fragArg.maxFragmentSize)
    IN /\ budget = LargerOf(fragArg.maxFragmentSize - HeaderOverhead(fragArg.bundle),
                            fragArg.maxFragmentSize \div 2)
       /\ budget # 0

\* ------------------------------------------------- fragment set properties
\* C36: in every fragment set no accepted fragment reaches past the set's
\* total length (offset + payload length <= total-ADU-length), so the
\* reassembly copies stay inside the reassembled payload.
C36_FragmentsInsideTotal ==
  \A oid \in DOMAIN m_fragmentSets : ~CopyOverruns(m_fragmentSets[oid])

\* The step is an AddFragment for a fragment from the network.
NetworkFragmentCalled == pc = "idle" /\ lastOp' = "AddFragment"

\* C40: a fragment set yields a bundle at most once. An AddFragment that
\* returns a bundle leaves its set marked complete, and an AddFragment for a
\* set that is marked complete, with a duplicate or a new offset, returns
\* no bundle and leaves the mark; the mark goes only with the set.
C40_ReassembledOnce ==
  [][NetworkFragmentCalled =>
       LET oid == GetOriginalBundleId(lastArg')
       IN /\ lastRet' # None => m_fragmentSets'[oid].complete
          /\ (oid \in DOMAIN m_fragmentSets /\ m_fragmentSets[oid].complete)
               => (lastRet' = None /\ m_fragmentSets'[oid].complete)]_vars

\* A fragment with a new offset has been added to a set that had already
\* yielded its bundle, and no bundle was returned.
C40_Witness ==
  /\ pc = "idle"
  /\ lastOp = "AddFragment"
  /\ lastRet = None
  /\ GetOriginalBundleId(lastArg) \in DOMAIN m_fragmentSets
  /\ LET info == m_fragmentSets[GetOriginalBundleId(lastArg)]
     IN /\ info.complete
        /\ info.fragments[Len(info.fragments)] = lastArg
        /\ Len(info.fragments) > 1

\* ------------------------------------------------------ delivery properties
\* The Bundle IDs of the bundles for the local node that the convergence
\* layer can hand to the node.
DeliverableIds == { GetId(b) : b \in { x \in LifeInputs : IsDeliverable(x) } }

\* C38: the destination delivers at most once per Bundle ID: the delivered
\* counter never exceeds the number of distinct Bundle IDs addressed to the
\* node, however many copies of a bundle arrive.
C38_DeliveredOncePerId == m_deliveredBundles <= Cardinality(DeliverableIds)

\* Node y has received the bundle from node x.
ReceivedFrom(y, x) == \E i \in 1..Len(netLog) : netLog[i] = <<x, y>>

\* C37: a node never transmits the bundle back to the neighbour that
\* forwarded it: no transmission from x to y is in flight when x has
\* received the bundle from y.
C37_NeverBackToForwarder ==
  \A flight \in netFlight : ~ReceivedFrom(flight[1], flight[2])

\* The endpoints of the peers routing knows.
RegisteredEndpoints == { m_peers[p].endpoint : p \in DOMAIN m_peers }

\* C39: the connections a routing task reports are registered as distinct
\* peers: when the peer of its k-th connection (endpoint k) is registered,
\* the peers of the connections before it are registered too, so that a
\* dispatch pass has every endpoint to send to.
C39_EndpointsAreDistinctPeers ==
  \A p \in DOMAIN m_peers : 1..m_peers[p].endpoint \subseteq RegisteredEndpoints

\* -------------------------------------------------------- thread properties
\* A thread is inside BundleDescriptor::AddSentNode or SentTo.
NotifyAccesses == notifyPc \in {"sentTo", "pushBack"}

\* C31: whenever the thread in NotifyNewBundle is about to read or write the
\* sent-to set of a descriptor, it holds m_bundlesMutex, so the thread in
\* DispatchBundles and SendBundle cannot be inside its own locked section
\* over the same descriptor at that moment.
C31_SentToUnderLock == NotifyAccesses => m_bundlesMutex = "notify"

\* C33: a SendBundle whose transmission attempt fails leaves the bundle's
\* previous-node block as it was.
C33_FailedSendKeepsBlocks ==
  [][(lastOp' = "SendBundle" /\ dispatchPc = "peers" /\ lastRet' = "failed")
       => previousNode' = previousNode]_vars

====
